---- MODULE Spec2Model ----
(***************************************************************************)
(* The game-session state machine, answer submission and scoring of the    *)
(* trivia game (gameRouter, playersRouter) over the relational store.      *)
(*                                                                         *)
(* Every handler is a request that first reads and checks on the plain     *)
(* connection (ctx.db) and then runs a transaction.  A transaction runs    *)
(* at the store's default isolation (read committed): each of its reads    *)
(* sees what is committed at that moment plus its own writes, its writes   *)
(* become visible at commit, and an UPDATE holds the row it changed until  *)
(* commit.  Requests of different callers interleave between these steps.  *)
(***************************************************************************)
EXTENDS Integers, Sequences, FiniteSets, Bags, TLC

----------------------------------------------------------------------------
(* Bounds of the model *)

NumPlayers == 2      \* players that have joined the session
NumQuestions == 2    \* questions of the session's bank
MaxRequests == 3     \* requests issued in one run of the game
NumOptions == 3      \* answer options of the question given to the scoring function
MaxSelected == 3     \* longest selectedOptionIds list given to the scoring function

\* the number of answer options questions.create and questions.update accept
MinOptions == 2
MaxOptions == 6

NULL == 0

PlayerIds == 1..NumPlayers
QuestionIds == 1..NumQuestions

SessionId == 1
BankId == 1

\* the admin who owns the session, and another admin
AdminId == 1
OtherAdminId == 2
AdminIds == {AdminId, OtherAdminId}

\* slugs: a base followed by the -k suffixes appended to it; the bases are family-night
\* and a base as long as a slug may be
MaxSlugLength == 100
SlugNames == {"family-night", "longest"}
BaseLength(name) == IF name = "family-night" THEN 12 ELSE MaxSlugLength

\* number of characters of a slug (a suffix is a hyphen and one digit)
SlugLength(slug) == BaseLength(slug.name) + 2 * Len(slug.suffix)

\* `${slug}-${counter}`
WithCounter(slug, counter) == [slug EXCEPT !.suffix = Append(@, counter)]

\* the slug of the session
SessionSlug == [name |-> "family-night", suffix |-> <<>>]

\* the place of a deleted session in the slug column
NoSlug == [name |-> "none", suffix |-> <<>>]

\* round_duration_seconds: the column's default, and the limits sessions.create and
\* sessions.update accept
DefaultRoundDuration == 30
MinRoundDuration == 10
MaxRoundDuration == 120

----------------------------------------------------------------------------
(* The store and the requests in flight *)

VARIABLES
  gameSession,      \* the game_sessions row of the session
  usedQuestions,    \* the used_questions rows of the session (a bag of rows)
  players,          \* the players rows, by player id
  playerResponses,  \* the player_responses rows (a bag of rows)
  calls,            \* the requests that passed their checks and are inside their
                    \* transaction (a bag: two equal requests can be in flight)
  result,           \* what the most recently completed request returned or threw
  requests,         \* the number of requests issued so far
  scoring,          \* an input of the scoring function and the points computed for it
  questions,        \* the questions rows of the bank, by question id
  answerOptions,    \* the answer_options rows, by question id, in display order
  slugs             \* the slug column of game_sessions: the slug of every session, by id

vars == <<gameSession, usedQuestions, players, playerResponses, calls, result, requests, scoring,
          questions, answerOptions, slugs>>

----------------------------------------------------------------------------
(* Content of the bank: questions and their answer options *)

NoRow == [absent |-> TRUE]

\* the ids of the questions created in the bank so far
created == { q \in QuestionIds : ~questions[q].absent }

\* questions.question_type of question q
question_type(q) == questions[q].question_type

\* rows of questionsTable
questionsTable == { questions[q] : q \in created }

\* insert into answer_options: the rows of question q for the is_correct flags in
\* display order, with the ids after lastId
InsertOptions(q, lastId, flags) ==
  [i \in DOMAIN flags |-> [id |-> lastId + i, question_id |-> q, is_correct |-> flags[i]]]

\* the id before those of the options question q is created with: the option at place
\* i of question q has id 10q+i
FirstOptions(q) == 10 * q

\* the id before those of the options an update of question q inserts: the column is
\* serial, the ids are above every id the question's options have had
NextOptions(q) ==
  IF answerOptions[q] = <<>> THEN FirstOptions(q)
  ELSE 100 * ((answerOptions[q][1].id \div 100) + 1) + FirstOptions(q)

\* the answer_options rows question q is created with, from the is_correct flags
OptionRows(q, flags) ==
  { InsertOptions(q, FirstOptions(q), flags)[i] : i \in DOMAIN flags }

\* rows of answerOptionsTable
answerOptionsTable ==
  UNION { { answerOptions[q][i] : i \in DOMAIN answerOptions[q] } : q \in QuestionIds }

\* what the admin enters for question q of the game's bank: odd ids are single-answer,
\* even ids multi-select, with a correct option and an incorrect one
QuestionInput(q) ==
  [question_type |-> IF q % 2 = 1 THEN "single" ELSE "multi", options |-> <<TRUE, FALSE>>]

\* a questions row as questions.create inserts it
NewQuestion(q, input) ==
  [absent |-> FALSE, id |-> q, bank_id |-> BankId, question_type |-> input.question_type]

\* the options question q of the game's bank is created with
QuestionOptions(q) == OptionRows(q, QuestionInput(q).options)

OptionsOf(q) == { o \in answerOptionsTable : o.question_id = q }

----------------------------------------------------------------------------
(* Valid state transitions *)

SessionStatus == {"lobby", "active", "revealing", "ended"}

validTransitions(from) ==
  CASE from = "lobby" -> {"active"}
    [] from = "active" -> {"revealing"}
    [] from = "revealing" -> {"active", "ended"}
    [] from = "ended" -> {}
    [] OTHER -> {}

canTransition(from, to) == to \in validTransitions(from)

----------------------------------------------------------------------------
(* Scoring *)

RECURSIVE MultiPoints_m(_, _, _)
\* MultiPoints that takes a point off for every selected id that is not a correct option
MultiPoints_m(correctOptionIds, incorrectOptionIds, selectedOptionIds) ==
  IF selectedOptionIds = <<>> THEN 0
  ELSE LET selectedId == Head(selectedOptionIds)
           rest == MultiPoints_m(correctOptionIds, incorrectOptionIds, Tail(selectedOptionIds))
       IN IF selectedId \in correctOptionIds THEN rest + 1 ELSE rest - 1

RECURSIVE MultiPoints(_, _, _)
\* the loop over selectedOptionIds of a multi-select question
MultiPoints(correctOptionIds, incorrectOptionIds, selectedOptionIds) ==
  IF selectedOptionIds = <<>> THEN 0
  ELSE LET selectedId == Head(selectedOptionIds)
           rest == MultiPoints(correctOptionIds, incorrectOptionIds, Tail(selectedOptionIds))
       IN IF selectedId \in correctOptionIds THEN rest + 1
          ELSE IF selectedId \in incorrectOptionIds THEN rest - 1
          ELSE rest

\* SinglePoints without the test that exactly one option is selected
SinglePoints_m(correctOptionIds, selectedOptionIds) ==
  IF Len(selectedOptionIds) >= 1 /\ selectedOptionIds[1] \in correctOptionIds THEN 1 ELSE 0

\* single answer: 1 point if exactly one option is selected and it is correct
SinglePoints(correctOptionIds, selectedOptionIds) ==
  IF Len(selectedOptionIds) = 1 /\ selectedOptionIds[1] \in correctOptionIds THEN 1 ELSE 0

\* points of a submission, from the question's type, its option rows and the selection
CalculatePoints(qtype, options, selectedOptionIds) ==
  LET correctOptionIds == { o.id : o \in { x \in options : x.is_correct } }
      incorrectOptionIds == { o.id : o \in { x \in options : ~x.is_correct } }
  IN IF qtype = "single"
       THEN SinglePoints(correctOptionIds, selectedOptionIds)
       ELSE MultiPoints(correctOptionIds, incorrectOptionIds, selectedOptionIds)

----------------------------------------------------------------------------
(* Rows and requests *)

\* display names: a word in one of two spellings that differ in letter case only
DisplayNames == [word : PlayerIds, upper : BOOLEAN]

\* String.toLowerCase of a display name
toLowerCase(displayName) == [displayName EXCEPT !.upper = FALSE]

\* the name player p has joined the game with
NameOf(p) == [word |-> p, upper |-> FALSE]

\* a players row after join (score 0), connected or since disconnected
NewPlayer(p, is_connected) ==
  [absent |-> FALSE, id |-> p, session_id |-> SessionId, display_name |-> NameOf(p),
   score |-> 0, is_connected |-> is_connected]

\* a game_sessions row as sessions.create inserts it; the timestamps round_started_at
\* and ended_at are logical: null is 0, and every new Date() written to a column is
\* later than the value it replaces
NewSession ==
  [absent |-> FALSE, id |-> SessionId, bank_id |-> BankId, admin_id |-> AdminId,
   status |-> "lobby", current_question_id |-> NULL, round_started_at |-> NULL,
   round_duration_seconds |-> DefaultRoundDuration, winner_player_id |-> NULL,
   ended_at |-> NULL]

\* no display name: the request carries none
NoName == [word |-> NULL, upper |-> FALSE]

\* the locals of a request
NewCall(op) ==
  [op |-> op, pc |-> "tx", playerId |-> NULL, questionId |-> NULL,
   selectedOptionIds |-> <<>>, score |-> 0, points |-> 0, question |-> NULL,
   usedCount |-> 0, winner |-> NULL, connectedPlayers |-> 0, responses |-> 0,
   allAnswered |-> FALSE, input |-> NULL, displayName |-> NoName, slug |-> NoSlug,
   status |-> "none", responses_read |-> EmptyBag]

Result(op, code, message) ==
  [op |-> op, code |-> code, message |-> message, allAnswered |-> FALSE, options |-> <<>>,
   totalResponses |-> 0, correctCount |-> 0, percentCorrect |-> 0,
   total |-> 0, used |-> 0, remaining |-> 0]

NoScoring == [pc |-> "off"]

\* the selections a player submits for question q in the game: one of its options
\* (the scoring function is given every selection list in SpecScoring)
SubmittedSelections(q) == { <<o.id>> : o \in QuestionOptions(q) }

\* the session in its lobby with no player or with NumPlayers players joined, each of
\* them connected or disconnected again, and nothing in flight
Init ==
  /\ gameSession = NewSession
  /\ usedQuestions = EmptyBag
  /\ \E k \in {0, NumPlayers} : \E connected \in SUBSET (1..k) :
       players = [p \in PlayerIds |->
                    IF p <= k THEN NewPlayer(p, p \in connected) ELSE NoRow]
  /\ playerResponses = EmptyBag
  /\ calls = EmptyBag
  /\ result = Result("none", "none", "none")
  /\ requests = 0
  /\ scoring = NoScoring
  /\ questions = [q \in QuestionIds |-> NewQuestion(q, QuestionInput(q))]
  /\ answerOptions = [q \in QuestionIds |->
                        InsertOptions(q, FirstOptions(q), QuestionInput(q).options)]
  /\ slugs = <<SessionSlug>>

----------------------------------------------------------------------------
(* Reads *)

\* number of rows of a table (a bag) among the selected rows
Count(table, rows) ==
  BagCardinality([r \in rows \cap BagToSet(table) |-> table[r]])

Insert(table, row) == table (+) SetToBag({row})

\* SessionPlayers that does not compare the session
SessionPlayers_m == { p \in PlayerIds : ~players[p].absent }

\* players rows of the session
SessionPlayers == { p \in PlayerIds : ~players[p].absent /\ players[p].session_id = SessionId }

\* number of player_responses rows of the session for question q
ResponsesTo(q) ==
  Count(playerResponses, { r \in BagToSet(playerResponses) :
                             r.session_id = SessionId /\ r.question_id = q })

\* number of player_responses rows of player p for question q
ResponsesOf(p, q) ==
  Count(playerResponses, { r \in BagToSet(playerResponses) :
                             r.player_id = p /\ r.question_id = q })

\* AlreadyAnswered that lets a second response through
AlreadyAnswered_m(playerId, questionId) == ResponsesOf(playerId, questionId) > 1

\* the player already has a response for the question
AlreadyAnswered(playerId, questionId) == ResponsesOf(playerId, questionId) > 0

\* ConnectedPlayers without the is_connected filter
ConnectedPlayers_m == SessionPlayers

\* the players of the session flagged is_connected
ConnectedPlayers == { p \in SessionPlayers : players[p].is_connected }

\* the players row p is held by a transaction that updated it and has not committed
RowLocked(p) ==
  \E c \in BagToSet(calls) : c.op = "submitAnswer" /\ c.pc = "counted" /\ c.playerId = p

\* a request arrives
Issue == requests < MaxRequests /\ requests' = requests + 1

\* the request throws in its checks, before its transaction
Reject(op, code, message) ==
  /\ result' = Result(op, code, message)
  /\ UNCHANGED <<gameSession, usedQuestions, players, playerResponses, calls, scoring, questions, answerOptions, slugs>>

\* the request passed its checks and opens its transaction
Enter(call) ==
  /\ calls' = calls (+) SetToBag({call})
  /\ UNCHANGED <<gameSession, usedQuestions, players, playerResponses, result, scoring, questions, answerOptions, slugs>>

\* the request throws inside its transaction, which rolls back
Rollback(c, code, message) ==
  /\ calls' = calls (-) SetToBag({c})
  /\ result' = Result(c.op, code, message)
  /\ UNCHANGED <<gameSession, usedQuestions, players, playerResponses, requests, scoring, questions, answerOptions, slugs>>

\* the transaction goes on to its next statement
Step(c, next) ==
  /\ calls' = (calls (-) SetToBag({c})) (+) SetToBag({next})
  /\ UNCHANGED <<gameSession, usedQuestions, players, playerResponses, result, requests, scoring, questions, answerOptions, slugs>>

\* the transaction commits and the request returns
Return(c) ==
  /\ calls' = calls (-) SetToBag({c})
  /\ result' = Result(c.op, "OK", "none")
  /\ UNCHANGED <<requests, scoring, questions, answerOptions, slugs>>

----------------------------------------------------------------------------
(* The admin's handlers fetch the session by id and owner *)

\* OwnedSession that does not compare the owner
OwnedSession_m(adminId, sessionId) == ~gameSession.absent /\ gameSession.id = sessionId

\* select from game_sessions where id = sessionId and admin_id = adminId finds a row
OwnedSession(adminId, sessionId) ==
  /\ ~gameSession.absent
  /\ gameSession.id = sessionId
  /\ gameSession.admin_id = adminId

\* select from game_sessions where id = sessionId finds a row
FoundSession(sessionId) == ~gameSession.absent /\ gameSession.id = sessionId

\* an insert that refers to a session that is gone violates its foreign key: the
\* transaction fails and rolls back
ForeignKeyViolation(c) == Rollback(c, "INTERNAL_SERVER_ERROR", "foreign key violation")

----------------------------------------------------------------------------
(* Question draw *)

\* availableQuestions that does not leave out the used questions
availableQuestions_m ==
  { q.id : q \in { x \in questionsTable : x.bank_id = gameSession.bank_id } }

\* the questions drawRandomQuestion chooses among: those of the bank not yet used
availableQuestions ==
  LET usedIds == { u.question_id : u \in BagToSet(usedQuestions) }
      inBank == { q.id : q \in { x \in questionsTable : x.bank_id = gameSession.bank_id } }
  IN IF usedIds # {} THEN inBank \ usedIds ELSE inBank

\* the transaction of startGame and nextQuestion draws, and throws when nothing is left
Draw(c, message) ==
  IF availableQuestions = {}
    THEN Rollback(c, "BAD_REQUEST", message)
    ELSE \E q \in availableQuestions :
           Step(c, [c EXCEPT !.pc = "drawn", !.question = q,
                             !.usedCount = BagCardinality(usedQuestions)])

\* the transaction records the question as used, makes it current, and commits
MarkUsed(c) ==
  IF gameSession.absent
    THEN ForeignKeyViolation(c)
    ELSE /\ usedQuestions' = Insert(usedQuestions,
              [question_id |-> c.question, question_order |-> c.usedCount + 1])
         /\ gameSession' = [gameSession EXCEPT !.status = "active",
                                               !.current_question_id = c.question,
                                               !.round_started_at = @ + 1]
         /\ Return(c)
         /\ UNCHANGED <<players, playerResponses>>

----------------------------------------------------------------------------
(* startGame *)

startGameCheck(adminId, sessionId) ==
  /\ Issue
  /\ IF ~OwnedSession(adminId, sessionId)
       THEN Reject("startGame", "NOT_FOUND", "Game session not found")
     ELSE IF ~canTransition(gameSession.status, "active")
       THEN Reject("startGame", "BAD_REQUEST", "Cannot start game from current state")
     ELSE IF SessionPlayers = {}
       THEN Reject("startGame", "BAD_REQUEST", "Cannot start game without players")
     ELSE Enter(NewCall("startGame"))

startGameDraw(c) ==
  /\ c.op = "startGame" /\ c.pc = "tx"
  /\ Draw(c, "No questions available in the bank")

startGameCommit(c) ==
  /\ c.op = "startGame" /\ c.pc = "drawn"
  /\ MarkUsed(c)

(* nextQuestion *)

nextQuestionCheck(adminId, sessionId) ==
  /\ Issue
  /\ IF ~OwnedSession(adminId, sessionId)
       THEN Reject("nextQuestion", "NOT_FOUND", "Game session not found")
     ELSE IF ~canTransition(gameSession.status, "active")
       THEN Reject("nextQuestion", "BAD_REQUEST", "Cannot go to next question from current state")
     ELSE Enter(NewCall("nextQuestion"))

nextQuestionDraw(c) ==
  /\ c.op = "nextQuestion" /\ c.pc = "tx"
  /\ Draw(c, "No more questions available")

nextQuestionCommit(c) ==
  /\ c.op = "nextQuestion" /\ c.pc = "drawn"
  /\ MarkUsed(c)

(* forceReveal *)

forceRevealCheck(adminId, sessionId) ==
  /\ Issue
  /\ IF ~OwnedSession(adminId, sessionId)
       THEN Reject("forceReveal", "NOT_FOUND", "Game session not found")
     ELSE IF ~canTransition(gameSession.status, "revealing")
       THEN Reject("forceReveal", "BAD_REQUEST", "Cannot reveal answer from current state")
     ELSE Enter(NewCall("forceReveal"))

\* forceRevealCommit that also restarts the round's clock
forceRevealCommit_m(c) ==
  /\ c.op = "forceReveal" /\ c.pc = "tx"
  /\ gameSession' = IF gameSession.absent THEN gameSession
                    ELSE [gameSession EXCEPT !.status = "revealing", !.round_started_at = @ + 1]
  /\ Return(c)
  /\ UNCHANGED <<usedQuestions, players, playerResponses>>

\* the transaction updates the status and commits
forceRevealCommit(c) ==
  /\ c.op = "forceReveal" /\ c.pc = "tx"
  /\ gameSession' = IF gameSession.absent THEN gameSession
                    ELSE [gameSession EXCEPT !.status = "revealing"]
  /\ Return(c)
  /\ UNCHANGED <<usedQuestions, players, playerResponses>>

----------------------------------------------------------------------------
(* endGame *)

\* players[0] of the session's players ordered by score descending, or null:
\* any player with the highest score (the order among equal scores is the store's)
calculateWinner ==
  IF SessionPlayers = {} THEN {NULL}
  ELSE { p \in SessionPlayers : \A o \in SessionPlayers : players[p].score >= players[o].score }

endGameCheck(adminId, sessionId) ==
  /\ Issue
  /\ IF ~OwnedSession(adminId, sessionId)
       THEN Reject("endGame", "NOT_FOUND", "Game session not found")
     ELSE IF gameSession.status \notin {"revealing", "active", "lobby"}
       THEN Reject("endGame", "BAD_REQUEST", "Cannot end game from current state")
     ELSE Enter(NewCall("endGame"))

endGameWinner(c) ==
  /\ c.op = "endGame" /\ c.pc = "tx"
  /\ \E w \in calculateWinner : Step(c, [c EXCEPT !.pc = "winner", !.winner = w])

\* endGameCommit that clears the current question
endGameCommit_m(c) ==
  /\ c.op = "endGame" /\ c.pc = "winner"
  /\ gameSession' = IF gameSession.absent THEN gameSession
                    ELSE [gameSession EXCEPT !.status = "ended",
                                             !.current_question_id = NULL,
                                             !.winner_player_id = c.winner,
                                             !.ended_at = @ + 1]
  /\ Return(c)
  /\ UNCHANGED <<usedQuestions, players, playerResponses>>

\* endGame: the UPDATE of the session in the transaction
endGameCommit(c) ==
  /\ c.op = "endGame" /\ c.pc = "winner"
  /\ gameSession' = IF gameSession.absent THEN gameSession
                    ELSE [gameSession EXCEPT !.status = "ended",
                                             !.winner_player_id = c.winner,
                                             !.ended_at = @ + 1]
  /\ Return(c)
  /\ UNCHANGED <<usedQuestions, players, playerResponses>>

----------------------------------------------------------------------------
(* submitAnswer *)

\* the reads and checks before the transaction: session, player, existing response,
\* question and options, and the points of the selection
submitAnswerCheck(playerId, questionId, selectedOptionIds) ==
  /\ Issue
  /\ IF ~FoundSession(SessionId)
       THEN Reject("submitAnswer", "NOT_FOUND", "Game session not found")
     ELSE IF gameSession.status # "active"
       THEN Reject("submitAnswer", "BAD_REQUEST", "Cannot submit answer when game is not active")
     ELSE IF gameSession.current_question_id # questionId
       THEN Reject("submitAnswer", "BAD_REQUEST", "This is not the current question")
     ELSE IF playerId \notin SessionPlayers
       THEN Reject("submitAnswer", "NOT_FOUND", "Player not found in this session")
     ELSE IF AlreadyAnswered(playerId, questionId)
       THEN Reject("submitAnswer", "BAD_REQUEST", "You have already answered this question")
     ELSE Enter([NewCall("submitAnswer") EXCEPT
            !.playerId = playerId, !.questionId = questionId,
            !.selectedOptionIds = selectedOptionIds,
            !.score = players[playerId].score,
            !.points = CalculatePoints(question_type(questionId), OptionsOf(questionId),
                                       selectedOptionIds)])

\* AllAnswered with a strict comparison
AllAnswered_m(responses, connectedPlayers) == responses > connectedPlayers

\* allAnswered, from the number of responses and of connected players the transaction read
AllAnswered(responses, connectedPlayers) == responses >= connectedPlayers

\* inside the transaction: insert the response, update the player's score (which takes
\* the player's row until commit), then read the connected players and the responses
\* of the question, which are the committed ones and the one just inserted
Counted(c) ==
  LET connectedPlayers == Cardinality(ConnectedPlayers)
      responses == ResponsesTo(c.questionId) + 1
  IN [c EXCEPT !.pc = "counted",
               !.connectedPlayers = connectedPlayers,
               !.responses = responses,
               !.allAnswered = AllAnswered(responses, connectedPlayers)]

submitAnswerCount(c) ==
  /\ c.op = "submitAnswer" /\ c.pc = "tx"
  /\ ~RowLocked(c.playerId)
  /\ Step(c, Counted(c))

\* NewScore that leaves the points out
NewScore_m(c) == c.score

\* the score the transaction writes: the score read before the transaction plus the points
NewScore(c) == c.score + c.points

\* the transaction flips the session to revealing if all answered, and commits
submitAnswerCommit(c) ==
  /\ c.op = "submitAnswer" /\ c.pc = "counted"
  /\ IF gameSession.absent
       THEN ForeignKeyViolation(c)
       ELSE /\ playerResponses' = Insert(playerResponses,
                 [player_id |-> c.playerId, session_id |-> SessionId,
                  question_id |-> c.questionId,
                  selected_option_ids |-> c.selectedOptionIds, points_earned |-> c.points])
            /\ players' = [players EXCEPT ![c.playerId].score = NewScore(c)]
            /\ gameSession' = IF c.allAnswered
                                THEN [gameSession EXCEPT !.status = "revealing"]
                                ELSE gameSession
            /\ calls' = calls (-) SetToBag({c})
            /\ result' = [Result(c.op, "OK", "none") EXCEPT !.allAnswered = c.allAnswered]
            /\ UNCHANGED <<usedQuestions, requests, scoring, questions, answerOptions, slugs>>

----------------------------------------------------------------------------
(* players: liveness signalling *)

\* heartbeat: one UPDATE of the player's row, which waits for a transaction holding it
heartbeat(playerId) ==
  /\ Issue
  /\ ~RowLocked(playerId)
  /\ IF players[playerId].absent
       THEN /\ result' = Result("heartbeat", "NOT_FOUND", "Player not found")
            /\ UNCHANGED players
       ELSE /\ players' = [players EXCEPT ![playerId].is_connected = TRUE]
            /\ result' = Result("heartbeat", "OK", "none")
  /\ UNCHANGED <<gameSession, usedQuestions, playerResponses, calls, scoring, questions, answerOptions, slugs>>

\* disconnect: one UPDATE of the player's row; no row, no change and no error
disconnect(playerId) ==
  /\ Issue
  /\ ~RowLocked(playerId)
  /\ players' = IF players[playerId].absent THEN players
                ELSE [players EXCEPT ![playerId].is_connected = FALSE]
  /\ result' = Result("disconnect", "OK", "none")
  /\ UNCHANGED <<gameSession, usedQuestions, playerResponses, calls, scoring, questions, answerOptions, slugs>>

----------------------------------------------------------------------------
(* The game: requests of the admin and of the players, interleaved *)

Next ==
  \/ startGameCheck(AdminId, SessionId)
  \/ \E c \in BagToSet(calls) : startGameDraw(c)
  \/ \E c \in BagToSet(calls) : startGameCommit(c)
  \/ nextQuestionCheck(AdminId, SessionId)
  \/ \E c \in BagToSet(calls) : nextQuestionDraw(c)
  \/ \E c \in BagToSet(calls) : nextQuestionCommit(c)
  \/ forceRevealCheck(AdminId, SessionId)
  \/ \E c \in BagToSet(calls) : forceRevealCommit(c)
  \/ endGameCheck(AdminId, SessionId)
  \/ \E c \in BagToSet(calls) : endGameWinner(c)
  \/ \E c \in BagToSet(calls) : endGameCommit(c)
  \/ \E p \in PlayerIds, q \in QuestionIds :
       \E sel \in SubmittedSelections(q) : submitAnswerCheck(p, q, sel)
  \/ \E c \in BagToSet(calls) : submitAnswerCount(c)
  \/ \E c \in BagToSet(calls) : submitAnswerCommit(c)
  \/ \E p \in PlayerIds : heartbeat(p)
  \/ \E p \in PlayerIds : disconnect(p)

Spec == Init /\ [][Next]_vars

----------------------------------------------------------------------------
(* The game while the admin goes on adding questions to the session's bank *)

\* the bank holds all questions but the last, which is created during the game
InitBank ==
  /\ gameSession = NewSession
  /\ usedQuestions = EmptyBag
  /\ \E connected \in SUBSET PlayerIds :
       players = [p \in PlayerIds |-> NewPlayer(p, p \in connected)]
  /\ playerResponses = EmptyBag
  /\ calls = EmptyBag
  /\ result = Result("none", "none", "none")
  /\ requests = 0
  /\ scoring = NoScoring
  /\ questions = [q \in QuestionIds |->
                    IF q < NumQuestions THEN NewQuestion(q, QuestionInput(q)) ELSE NoRow]
  /\ answerOptions = [q \in QuestionIds |->
                        IF q < NumQuestions
                          THEN InsertOptions(q, FirstOptions(q), QuestionInput(q).options)
                          ELSE <<>>]
  /\ slugs = <<SessionSlug>>

\* questions.create: the question and its options are inserted in one transaction; the
\* id is the next of the identity column
questionsCreate(input) ==
  /\ Issue
  /\ created # QuestionIds
  /\ IF Len(input.options) < MinOptions \/ Len(input.options) > MaxOptions
       THEN /\ result' = Result("questions.create", "BAD_REQUEST", "Input validation failed")
            /\ UNCHANGED <<questions, answerOptions>>
     ELSE IF \A i \in DOMAIN input.options : ~input.options[i]
       THEN /\ result' = Result("questions.create", "BAD_REQUEST",
                                "At least one answer must be marked as correct")
            /\ UNCHANGED <<questions, answerOptions>>
     ELSE LET id == Cardinality(created) + 1
          IN /\ questions' = [questions EXCEPT ![id] = NewQuestion(id, input)]
             /\ answerOptions' = [answerOptions EXCEPT
                                    ![id] = InsertOptions(id, FirstOptions(id), input.options)]
             /\ result' = Result("questions.create", "OK", "none")
  /\ UNCHANGED <<gameSession, usedQuestions, players, playerResponses, calls, scoring, slugs>>

NextBank ==
  \/ Next
  \/ questionsCreate(QuestionInput(Cardinality(created) + 1))

SpecBank == InitBank /\ [][NextBank]_vars

----------------------------------------------------------------------------
(* The bank's editor, and the current question as the players are shown it *)

\* is_correct flags of n options, of which those at the places in correct are marked
Flags(n, correct) == [i \in 1..n |-> i \in correct]

\* options of questions.create and questions.update: one too few, the fewest, the most
\* and one too many, with none or the last of them marked correct
OptionsInputs ==
  UNION { { Flags(n, correct) : correct \in {{}, {n}} } :
            n \in {MinOptions - 1, MinOptions, MaxOptions, MaxOptions + 1} }

\* session ids a caller names: the session's and one that no session has
SessionInputs == {SessionId, SessionId + 1}

\* input of questions.create
CreateInputs == [question_type : {"single", "multi"}, options : OptionsInputs]

\* input of questions.update: the id of the first question or an id no question has,
\* and the optional fields the input has (keys); a field that is not in the input is
\* written here with one value, which the handler does not read
UpdateInputs ==
  { input \in [id : {1, NumQuestions + 1}, keys : SUBSET {"question_type", "options"},
               question_type : {"single", "multi"}, options : OptionsInputs] :
      /\ "question_type" \in input.keys \/ input.question_type = "single"
      /\ "options" \in input.keys \/ input.options = Flags(MinOptions, {MinOptions}) }

\* the session in its lobby with every player joined and connected; the bank holds
\* all questions but the last, which can be created
InitQuestions ==
  /\ gameSession = NewSession
  /\ usedQuestions = EmptyBag
  /\ players = [p \in PlayerIds |-> NewPlayer(p, TRUE)]
  /\ playerResponses = EmptyBag
  /\ calls = EmptyBag
  /\ result = Result("none", "none", "none")
  /\ requests = 0
  /\ scoring = NoScoring
  /\ questions = [q \in QuestionIds |->
                    IF q < NumQuestions THEN NewQuestion(q, QuestionInput(q)) ELSE NoRow]
  /\ answerOptions = [q \in QuestionIds |->
                        IF q < NumQuestions
                          THEN InsertOptions(q, FirstOptions(q), QuestionInput(q).options)
                          ELSE <<>>]
  /\ slugs = <<SessionSlug>>

\* questionsUpdate that throws for the missing correct answer outside a transaction:
\* the write of the question's fields stays
questionsUpdate_m(input) ==
  /\ Issue
  /\ IF "options" \in input.keys /\ (\/ Len(input.options) < MinOptions
                                      \/ Len(input.options) > MaxOptions)
       THEN /\ result' = Result("questions.update", "BAD_REQUEST", "Input validation failed")
            /\ UNCHANGED <<questions, answerOptions>>
     ELSE IF input.id \notin created
       THEN /\ result' = Result("questions.update", "NOT_FOUND", "Question not found")
            /\ UNCHANGED <<questions, answerOptions>>
     ELSE LET updatedQuestion ==
                IF "question_type" \in input.keys
                  THEN [questions EXCEPT ![input.id].question_type = input.question_type]
                  ELSE questions
          IN IF "options" \in input.keys /\ (\A i \in DOMAIN input.options : ~input.options[i])
               THEN /\ result' = Result("questions.update", "BAD_REQUEST",
                                        "At least one answer must be marked as correct")
                    /\ questions' = updatedQuestion
                    /\ UNCHANGED answerOptions
               ELSE /\ questions' = updatedQuestion
                    /\ answerOptions' =
                         IF "options" \in input.keys
                           THEN [answerOptions EXCEPT ![input.id] =
                                   InsertOptions(input.id, NextOptions(input.id), input.options)]
                           ELSE answerOptions
                    /\ result' = Result("questions.update", "OK", "none")
  /\ UNCHANGED <<gameSession, usedQuestions, players, playerResponses, calls, scoring, slugs>>

\* questions.update: one transaction that writes the question's fields, throws if no
\* question has the id or the new options have no correct one (the transaction rolls
\* back), and else replaces the question's options
questionsUpdate(input) ==
  /\ Issue
  /\ IF "options" \in input.keys /\ (\/ Len(input.options) < MinOptions
                                      \/ Len(input.options) > MaxOptions)
       THEN /\ result' = Result("questions.update", "BAD_REQUEST", "Input validation failed")
            /\ UNCHANGED <<questions, answerOptions>>
     ELSE IF input.id \notin created
       THEN /\ result' = Result("questions.update", "NOT_FOUND", "Question not found")
            /\ UNCHANGED <<questions, answerOptions>>
     ELSE LET updatedQuestion ==
                IF "question_type" \in input.keys
                  THEN [questions EXCEPT ![input.id].question_type = input.question_type]
                  ELSE questions
          IN IF "options" \in input.keys /\ (\A i \in DOMAIN input.options : ~input.options[i])
               THEN /\ result' = Result("questions.update", "BAD_REQUEST",
                                        "At least one answer must be marked as correct")
                    /\ UNCHANGED <<questions, answerOptions>>
               ELSE /\ questions' = updatedQuestion
                    /\ answerOptions' =
                         IF "options" \in input.keys
                           THEN [answerOptions EXCEPT ![input.id] =
                                   InsertOptions(input.id, NextOptions(input.id), input.options)]
                           ELSE answerOptions
                    /\ result' = Result("questions.update", "OK", "none")
  /\ UNCHANGED <<gameSession, usedQuestions, players, playerResponses, calls, scoring, slugs>>

\* sanitizedOptions that hides nothing
sanitizedOptions_m(status, options) == options

\* sanitizedOptions: is_correct of every option is false when the session is active
sanitizedOptions(status, options) ==
  IF status = "active"
    THEN [i \in DOMAIN options |-> [options[i] EXCEPT !.is_correct = FALSE]]
    ELSE options

\* getCurrentQuestion: the session is read; null if there is none or it has no
\* current question
getCurrentQuestionSession(sessionId) ==
  /\ Issue
  /\ IF ~FoundSession(sessionId) \/ gameSession.current_question_id = NULL
       THEN Reject("getCurrentQuestion", "OK", "null")
       ELSE Enter([NewCall("getCurrentQuestion") EXCEPT
                     !.pc = "question",
                     !.questionId = gameSession.current_question_id,
                     !.status = gameSession.status])

\* getCurrentQuestion: the question and its options are read and returned
getCurrentQuestionReturn(c) ==
  /\ c.op = "getCurrentQuestion" /\ c.pc = "question"
  /\ calls' = calls (-) SetToBag({c})
  /\ result' = IF c.questionId \notin created
                 THEN Result(c.op, "OK", "null")
                 ELSE [Result(c.op, "OK", "none") EXCEPT
                         !.options = sanitizedOptions(c.status, answerOptions[c.questionId])]
  /\ UNCHANGED <<gameSession, usedQuestions, players, playerResponses, requests, scoring,
                 questions, answerOptions, slugs>>

NextQuestions ==
  \/ \E input \in CreateInputs : questionsCreate(input)
  \/ \E input \in UpdateInputs : questionsUpdate(input)
  \/ \E id \in SessionInputs : getCurrentQuestionSession(id)
  \/ \E c \in BagToSet(calls) : getCurrentQuestionReturn(c)
  \/ startGameCheck(AdminId, SessionId)
  \/ \E c \in BagToSet(calls) : startGameDraw(c)
  \/ \E c \in BagToSet(calls) : startGameCommit(c)
  \/ forceRevealCheck(AdminId, SessionId)
  \/ \E c \in BagToSet(calls) : forceRevealCommit(c)
  \/ endGameCheck(AdminId, SessionId)
  \/ \E c \in BagToSet(calls) : endGameWinner(c)
  \/ \E c \in BagToSet(calls) : endGameCommit(c)

SpecQuestions == InitQuestions /\ [][NextQuestions]_vars

----------------------------------------------------------------------------
(* A round in play: the read queries of the reveal screen and of the admin *)

\* isCorrect of getRoundStats: as many ids selected as there are correct options, and
\* every selected id a correct option
isCorrect(selectedIds, correctOptionIds) ==
  /\ Len(selectedIds) = Cardinality(correctOptionIds)
  /\ \A i \in DOMAIN selectedIds : selectedIds[i] \in correctOptionIds

\* Math.round((count / totalResponses) * 100), 0 when there are no responses
Percent(count, totalResponses) ==
  IF totalResponses > 0 THEN (200 * count + totalResponses) \div (2 * totalResponses) ELSE 0

\* getRoundStats: the responses of the session for the question are read
getRoundStatsResponses(sessionId, questionId) ==
  /\ Issue
  /\ Enter([NewCall("getRoundStats") EXCEPT
              !.pc = "options",
              !.questionId = questionId,
              !.responses_read =
                 [r \in { x \in BagToSet(playerResponses) :
                            x.session_id = sessionId /\ x.question_id = questionId }
                    |-> playerResponses[r]]])

\* getRoundStats: the options are read, and the responses that got it right counted
getRoundStatsReturn(c) ==
  /\ c.op = "getRoundStats" /\ c.pc = "options"
  /\ LET correctOptionIds == { o.id : o \in { x \in OptionsOf(c.questionId) : x.is_correct } }
         responses == c.responses_read
         correctCount ==
           Count(responses, { r \in BagToSet(responses) :
                                isCorrect(r.selected_option_ids, correctOptionIds) })
         totalResponses == BagCardinality(responses)
     IN result' = [Result(c.op, "OK", "none") EXCEPT
                     !.totalResponses = totalResponses,
                     !.correctCount = correctCount,
                     !.percentCorrect = Percent(correctCount, totalResponses)]
  /\ calls' = calls (-) SetToBag({c})
  /\ UNCHANGED <<gameSession, usedQuestions, players, playerResponses, requests, scoring,
                 questions, answerOptions, slugs>>

\* getPlayerResponse: the player's response for the question, or null
getPlayerResponse(playerId, questionId) ==
  /\ Issue
  /\ result' = IF ResponsesOf(playerId, questionId) > 0
                 THEN Result("getPlayerResponse", "OK", "none")
                 ELSE Result("getPlayerResponse", "OK", "null")
  /\ UNCHANGED <<gameSession, usedQuestions, players, playerResponses, calls, scoring,
                 questions, answerOptions, slugs>>

\* getRemainingQuestionsCount: the session is read; zeros if there is none
getRemainingQuestionsCountSession(sessionId) ==
  /\ Issue
  /\ IF ~FoundSession(sessionId)
       THEN Reject("getRemainingQuestionsCount", "OK", "none")
       ELSE Enter([NewCall("getRemainingQuestionsCount") EXCEPT !.pc = "count"])

\* getRemainingQuestionsCount: the questions of the bank and the used questions of the
\* session are read and counted
getRemainingQuestionsCountReturn(c) ==
  /\ c.op = "getRemainingQuestionsCount" /\ c.pc = "count"
  /\ LET total == Cardinality({ q \in questionsTable : q.bank_id = BankId })
         used == BagCardinality(usedQuestions)
     IN result' = [Result(c.op, "OK", "none") EXCEPT
                     !.total = total, !.used = used, !.remaining = total - used]
  /\ calls' = calls (-) SetToBag({c})
  /\ UNCHANGED <<gameSession, usedQuestions, players, playerResponses, requests, scoring,
                 questions, answerOptions, slugs>>

\* the markings of the two options of the round's question: at least one is correct
RoundFlags == { flags \in [1..MinOptions -> BOOLEAN] : \E i \in DOMAIN flags : flags[i] }

\* what the players submit in the round: one option of the question, or all of them
RoundSelections(q) ==
  { <<answerOptions[q][i].id>> : i \in DOMAIN answerOptions[q] }
    \cup { [i \in DOMAIN answerOptions[q] |-> answerOptions[q][i].id] }

\* the first round in play: every player has joined, each connected or not, the
\* session is active on question 1 (single-answer), which is its one used question
InitRound ==
  /\ gameSession = [NewSession EXCEPT !.status = "active", !.current_question_id = 1,
                                      !.round_started_at = 1]
  /\ usedQuestions = SetToBag({[question_id |-> 1, question_order |-> 1]})
  /\ \E connected \in SUBSET PlayerIds :
       players = [p \in PlayerIds |-> NewPlayer(p, p \in connected)]
  /\ playerResponses = EmptyBag
  /\ calls = EmptyBag
  /\ result = Result("none", "none", "none")
  /\ requests = 0
  /\ scoring = NoScoring
  /\ questions = [q \in QuestionIds |-> NewQuestion(q, QuestionInput(q))]
  /\ \E flags \in RoundFlags :
       answerOptions = [q \in QuestionIds |->
                          InsertOptions(q, FirstOptions(q),
                                        IF q = 1 THEN flags ELSE QuestionInput(q).options)]
  /\ slugs = <<SessionSlug>>

NextRound ==
  \/ \E p \in PlayerIds, q \in QuestionIds :
       \E sel \in RoundSelections(q) : submitAnswerCheck(p, q, sel)
  \/ \E c \in BagToSet(calls) : submitAnswerCount(c)
  \/ \E c \in BagToSet(calls) : submitAnswerCommit(c)
  \/ forceRevealCheck(AdminId, SessionId)
  \/ \E c \in BagToSet(calls) : forceRevealCommit(c)
  \/ nextQuestionCheck(AdminId, SessionId)
  \/ \E c \in BagToSet(calls) : nextQuestionDraw(c)
  \/ \E c \in BagToSet(calls) : nextQuestionCommit(c)
  \/ endGameCheck(AdminId, SessionId)
  \/ \E c \in BagToSet(calls) : endGameWinner(c)
  \/ \E c \in BagToSet(calls) : endGameCommit(c)
  \/ \E q \in QuestionIds : getRoundStatsResponses(SessionId, q)
  \/ \E c \in BagToSet(calls) : getRoundStatsReturn(c)

SpecRound == InitRound /\ [][NextRound]_vars

\* the session of another game; of its rows only the players are kept
OtherSessionId == SessionId + 2

\* a round in play while the admin edits the questions of the bank: the session is
\* active on question 1, its players are connected, and the last player is a player
\* of another game's session
InitEdit ==
  /\ gameSession = [NewSession EXCEPT !.status = "active", !.current_question_id = 1,
                                      !.round_started_at = 1]
  /\ usedQuestions = SetToBag({[question_id |-> 1, question_order |-> 1]})
  /\ players = [p \in PlayerIds |->
                  IF p < NumPlayers
                    THEN NewPlayer(p, TRUE)
                    ELSE [NewPlayer(p, TRUE) EXCEPT !.session_id = OtherSessionId]]
  /\ playerResponses = EmptyBag
  /\ calls = EmptyBag
  /\ result = Result("none", "none", "none")
  /\ requests = 0
  /\ scoring = NoScoring
  /\ questions = [q \in QuestionIds |-> NewQuestion(q, QuestionInput(q))]
  /\ answerOptions = [q \in QuestionIds |->
                        InsertOptions(q, FirstOptions(q), QuestionInput(q).options)]
  /\ slugs = <<SessionSlug>>

\* the edits of the question in play: its type, its options (as many as it has), or both
EditInputs == { input \in UpdateInputs : input.id = 1 /\ Len(input.options) = MinOptions }

NextEdit ==
  \/ \E p \in PlayerIds, q \in QuestionIds :
       \E sel \in RoundSelections(q) : submitAnswerCheck(p, q, sel)
  \/ \E c \in BagToSet(calls) : submitAnswerCount(c)
  \/ \E c \in BagToSet(calls) : submitAnswerCommit(c)
  \/ \E input \in EditInputs : questionsUpdate(input)

SpecEdit == InitEdit /\ [][NextEdit]_vars

\* the admin draws questions and the lobby screen asks how many are left
NextCount ==
  \/ startGameCheck(AdminId, SessionId)
  \/ \E c \in BagToSet(calls) : startGameDraw(c)
  \/ \E c \in BagToSet(calls) : startGameCommit(c)
  \/ nextQuestionCheck(AdminId, SessionId)
  \/ \E c \in BagToSet(calls) : nextQuestionDraw(c)
  \/ \E c \in BagToSet(calls) : nextQuestionCommit(c)
  \/ forceRevealCheck(AdminId, SessionId)
  \/ \E c \in BagToSet(calls) : forceRevealCommit(c)
  \/ \E sessionId \in SessionInputs : getRemainingQuestionsCountSession(sessionId)
  \/ \E c \in BagToSet(calls) : getRemainingQuestionsCountReturn(c)

SpecCount == Init /\ [][NextCount]_vars

----------------------------------------------------------------------------
(* The admin's side: any admin calls the session handlers with any session id *)

\* roundDurationSeconds of sessions.update: left out, or a number at or beyond the limits
DurationInputs ==
  {NULL, MinRoundDuration - 1, MinRoundDuration, MaxRoundDuration, MaxRoundDuration + 1}

\* z.number().min(10).max(120).optional()
ValidDuration(roundDurationSeconds) ==
  \/ roundDurationSeconds = NULL
  \/ /\ roundDurationSeconds >= MinRoundDuration
     /\ roundDurationSeconds <= MaxRoundDuration

\* sessions.update: input validation, owner-scoped fetch and lobby check
sessionsUpdateCheck(adminId, id, roundDurationSeconds) ==
  /\ Issue
  /\ IF ~ValidDuration(roundDurationSeconds)
       THEN Reject("sessions.update", "BAD_REQUEST", "Input validation failed")
     ELSE IF ~OwnedSession(adminId, id)
       THEN Reject("sessions.update", "NOT_FOUND", "Game session not found")
     ELSE IF gameSession.status # "lobby"
       THEN Reject("sessions.update", "BAD_REQUEST",
                   "Can only update session settings while in lobby")
     ELSE Enter([NewCall("sessions.update") EXCEPT !.input = roundDurationSeconds])

\* sessions.update: the transaction sets the columns given; an update with no column
\* to set is refused by the query builder
sessionsUpdateCommit(c) ==
  /\ c.op = "sessions.update" /\ c.pc = "tx"
  /\ IF c.input = NULL
       THEN Rollback(c, "INTERNAL_SERVER_ERROR", "No values to set")
       ELSE /\ gameSession' = IF gameSession.absent THEN gameSession
                               ELSE [gameSession EXCEPT !.round_duration_seconds = c.input]
            /\ Return(c)
            /\ UNCHANGED <<usedQuestions, players, playerResponses, questions, answerOptions,
                           slugs>>

\* sessions.delete: one DELETE scoped by id and owner; the rows that refer to the
\* session (used questions, players, responses) go with it
sessionsDelete(adminId, id) ==
  /\ Issue
  /\ \A p \in PlayerIds : ~RowLocked(p)
  /\ IF ~OwnedSession(adminId, id)
       THEN Reject("sessions.delete", "NOT_FOUND", "Game session not found")
       ELSE /\ gameSession' = [gameSession EXCEPT !.absent = TRUE]
            /\ usedQuestions' = EmptyBag
            /\ players' = [p \in PlayerIds |-> NoRow]
            /\ playerResponses' = EmptyBag
            /\ slugs' = [slugs EXCEPT ![id] = NoSlug]
            /\ result' = Result("sessions.delete", "OK", "none")
            /\ UNCHANGED <<calls, scoring, questions, answerOptions>>

\* the session in its lobby, all players but the last having joined
InitPlayers ==
  /\ gameSession = NewSession
  /\ usedQuestions = EmptyBag
  /\ players = [p \in PlayerIds |-> IF p < NumPlayers THEN NewPlayer(p, TRUE) ELSE NoRow]
  /\ playerResponses = EmptyBag
  /\ calls = EmptyBag
  /\ result = Result("none", "none", "none")
  /\ requests = 0
  /\ scoring = NoScoring
  /\ questions = [q \in QuestionIds |-> NewQuestion(q, QuestionInput(q))]
  /\ answerOptions = [q \in QuestionIds |->
                        InsertOptions(q, FirstOptions(q), QuestionInput(q).options)]
  /\ slugs = <<SessionSlug>>

NextAdmin ==
  \/ \E a \in AdminIds, id \in SessionInputs : startGameCheck(a, id)
  \/ \E c \in BagToSet(calls) : startGameDraw(c)
  \/ \E c \in BagToSet(calls) : startGameCommit(c)
  \/ \E a \in AdminIds, id \in SessionInputs : nextQuestionCheck(a, id)
  \/ \E c \in BagToSet(calls) : nextQuestionDraw(c)
  \/ \E c \in BagToSet(calls) : nextQuestionCommit(c)
  \/ \E a \in AdminIds, id \in SessionInputs : forceRevealCheck(a, id)
  \/ \E c \in BagToSet(calls) : forceRevealCommit(c)
  \/ \E a \in AdminIds, id \in SessionInputs : endGameCheck(a, id)
  \/ \E c \in BagToSet(calls) : endGameWinner(c)
  \/ \E c \in BagToSet(calls) : endGameCommit(c)
  \/ \E a \in AdminIds, id \in SessionInputs, d \in DurationInputs :
       sessionsUpdateCheck(a, id, d)
  \/ \E c \in BagToSet(calls) : sessionsUpdateCommit(c)
  \/ \E a \in AdminIds, id \in SessionInputs : sessionsDelete(a, id)

SpecAdmin == InitPlayers /\ [][NextAdmin]_vars

----------------------------------------------------------------------------
(* Creating sessions: the slug column *)

\* question_banks: the bank of the questions, and a bank that has no question
EmptyBankId == BankId + 1
questionBanksTable == {BankId, EmptyBankId}

\* bankId of sessions.create: one of the banks, or an id no bank has
BankInputs == questionBanksTable \cup {EmptyBankId + 1}

\* slug of sessions.create: a base, or a base that ends in -1 already
SlugInputs == [name : SlugNames, suffix : {<<>>, <<1>>}]

\* some session has the slug
SlugExists(slug) == \E id \in DOMAIN slugs : slugs[id] = slug

\* the while loop: the first counter from counter on whose `${slug}-${counter}` no
\* session has
RECURSIVE FirstFreeCounter(_, _)
FirstFreeCounter(slug, counter) ==
  IF ~SlugExists(WithCounter(slug, counter)) THEN counter
  ELSE FirstFreeCounter(slug, counter + 1)

\* finalSlug
finalSlug(slug) ==
  IF SlugExists(slug) THEN WithCounter(slug, FirstFreeCounter(slug, 1)) ELSE slug

\* sessions.create: input validation, bank and questions checks, choice of the slug
sessionsCreateCheck(slug, bankId, roundDurationSeconds) ==
  /\ Issue
  /\ IF SlugLength(slug) > MaxSlugLength \/ ~ValidDuration(roundDurationSeconds)
       THEN Reject("sessions.create", "BAD_REQUEST", "Input validation failed")
     ELSE IF bankId \notin questionBanksTable
       THEN Reject("sessions.create", "NOT_FOUND", "Question bank not found")
     ELSE IF { q \in created : questions[q].bank_id = bankId } = {}
       THEN Reject("sessions.create", "BAD_REQUEST", "Question bank has no questions")
     ELSE Enter([NewCall("sessions.create") EXCEPT !.slug = finalSlug(slug)])

\* sessions.create: the transaction inserts the session; the slug column is
\* varchar(100) and has a unique index (the new session takes the next place of the
\* column; ids that failed inserts have used up are not counted)
sessionsCreateCommit(c) ==
  /\ c.op = "sessions.create" /\ c.pc = "tx"
  /\ IF SlugLength(c.slug) > MaxSlugLength
       THEN /\ Rollback(c, "INTERNAL_SERVER_ERROR", "value too long")
     ELSE IF SlugExists(c.slug)
       THEN /\ Rollback(c, "INTERNAL_SERVER_ERROR", "duplicate key")
     ELSE /\ slugs' = Append(slugs, c.slug)
          /\ calls' = calls (-) SetToBag({c})
          /\ result' = Result(c.op, "OK", "none")
          /\ UNCHANGED <<gameSession, usedQuestions, players, playerResponses, requests,
                         scoring, questions, answerOptions>>

NextSlug ==
  \/ \E slug \in SlugInputs, bankId \in BankInputs,
        d \in {NULL, MaxRoundDuration + 1} : sessionsCreateCheck(slug, bankId, d)
  \/ \E c \in BagToSet(calls) : sessionsCreateCommit(c)
  \/ sessionsDelete(AdminId, SessionId)

SpecSlug == Init /\ [][NextSlug]_vars

----------------------------------------------------------------------------
(* The players' side: joining, coming back, leaving, answering *)

\* the player ids a joining client sends: none, or an id it has kept
PlayerIdInputs == PlayerIds \cup {NULL}

\* some player of the session other than playerId has the name, letter case aside
nameTaken(displayName, playerId) ==
  \E p \in SessionPlayers :
    /\ toLowerCase(players[p].display_name) = toLowerCase(displayName)
    /\ p # playerId

\* randomUUID(): an id that no player has and no other request has generated
randomUUID ==
  { p \in PlayerIds :
      /\ players[p].absent
      /\ \A c \in BagToSet(calls) : ~(c.op = "join" /\ c.playerId = p /\ c.pc = "insert") }

\* join: session and lobby check, name check, then the choice between renaming the
\* known player and creating a new one
joinCheck(sessionId, displayName, playerId) ==
  /\ Issue
  /\ IF ~FoundSession(sessionId)
       THEN Reject("join", "NOT_FOUND", "Game session not found")
     ELSE IF gameSession.status # "lobby"
       THEN Reject("join", "BAD_REQUEST", "Cannot join a game that has already started")
     ELSE IF nameTaken(displayName, playerId)
       THEN Reject("join", "CONFLICT", "This name is already taken")
     ELSE IF playerId # NULL /\ playerId \in SessionPlayers
       THEN Enter([NewCall("join") EXCEPT !.pc = "update", !.playerId = playerId,
                                          !.displayName = displayName])
     ELSE IF playerId # NULL
       THEN Enter([NewCall("join") EXCEPT !.pc = "insert", !.playerId = playerId,
                                          !.displayName = displayName])
     ELSE /\ randomUUID # {}
          /\ Enter([NewCall("join") EXCEPT !.pc = "insert",
                                           !.playerId = CHOOSE p \in randomUUID : TRUE,
                                           !.displayName = displayName])

\* join, known player: the transaction updates the name and reconnects
joinUpdate(c) ==
  /\ c.op = "join" /\ c.pc = "update"
  /\ ~RowLocked(c.playerId)
  /\ players' = IF players[c.playerId].absent THEN players
                ELSE [players EXCEPT ![c.playerId].display_name = c.displayName,
                                     ![c.playerId].is_connected = TRUE]
  /\ Return(c)
  /\ UNCHANGED <<gameSession, usedQuestions, playerResponses, questions, answerOptions, slugs>>

\* join, new player: the transaction inserts the player (score 0, connected); the
\* insert fails if the session is gone or the id is taken
joinInsert(c) ==
  /\ c.op = "join" /\ c.pc = "insert"
  /\ IF gameSession.absent
       THEN ForeignKeyViolation(c)
     ELSE IF ~players[c.playerId].absent
       THEN Rollback(c, "INTERNAL_SERVER_ERROR", "duplicate key")
     ELSE /\ players' = [players EXCEPT ![c.playerId] =
                           [NewPlayer(c.playerId, TRUE) EXCEPT !.display_name = c.displayName]]
          /\ Return(c)
          /\ UNCHANGED <<gameSession, usedQuestions, playerResponses, questions,
                         answerOptions, slugs>>

\* rejoin: player fetch by id and session, session fetch
rejoinCheck(playerId, sessionId) ==
  /\ Issue
  /\ IF players[playerId].absent \/ players[playerId].session_id # sessionId
       THEN Reject("rejoin", "NOT_FOUND", "Player not found in this session")
     ELSE IF ~FoundSession(sessionId)
       THEN Reject("rejoin", "NOT_FOUND", "Game session not found")
     ELSE Enter([NewCall("rejoin") EXCEPT !.playerId = playerId])

\* rejoinCommit whose UPDATE is not scoped to the player
rejoinCommit_m(c) ==
  /\ c.op = "rejoin" /\ c.pc = "tx"
  /\ ~RowLocked(c.playerId)
  /\ players' = [p \in PlayerIds |->
                  IF players[p].absent THEN players[p]
                  ELSE [players[p] EXCEPT !.is_connected = TRUE]]
  /\ Return(c)
  /\ UNCHANGED <<gameSession, usedQuestions, playerResponses, questions, answerOptions, slugs>>

\* rejoin: the transaction marks the player connected
rejoinCommit(c) ==
  /\ c.op = "rejoin" /\ c.pc = "tx"
  /\ ~RowLocked(c.playerId)
  /\ players' = IF players[c.playerId].absent THEN players
                ELSE [players EXCEPT ![c.playerId].is_connected = TRUE]
  /\ Return(c)
  /\ UNCHANGED <<gameSession, usedQuestions, playerResponses, questions, answerOptions, slugs>>

NextPlayers ==
  \/ \E id \in SessionInputs, name \in DisplayNames, p \in PlayerIdInputs :
       joinCheck(id, name, p)
  \/ \E c \in BagToSet(calls) : joinUpdate(c)
  \/ \E c \in BagToSet(calls) : joinInsert(c)
  \/ \E p \in PlayerIds, id \in SessionInputs : rejoinCheck(p, id)
  \/ \E c \in BagToSet(calls) : rejoinCommit(c)
  \/ \E p \in PlayerIds : disconnect(p)
  \/ startGameCheck(AdminId, SessionId)
  \/ \E c \in BagToSet(calls) : startGameDraw(c)
  \/ \E c \in BagToSet(calls) : startGameCommit(c)
  \/ forceRevealCheck(AdminId, SessionId)
  \/ \E c \in BagToSet(calls) : forceRevealCommit(c)
  \/ endGameCheck(AdminId, SessionId)
  \/ \E c \in BagToSet(calls) : endGameWinner(c)
  \/ \E c \in BagToSet(calls) : endGameCommit(c)
  \/ \E p \in PlayerIds, q \in QuestionIds :
       \E sel \in SubmittedSelections(q) : submitAnswerCheck(p, q, sel)
  \/ \E c \in BagToSet(calls) : submitAnswerCount(c)
  \/ \E c \in BagToSet(calls) : submitAnswerCommit(c)

SpecPlayers == InitPlayers /\ [][NextPlayers]_vars

\* every operation on the session: the players', the admin's and the screens' queries
NextAll ==
  \/ \E id \in SessionInputs, name \in DisplayNames, p \in PlayerIdInputs :
       joinCheck(id, name, p)
  \/ \E c \in BagToSet(calls) : joinUpdate(c)
  \/ \E c \in BagToSet(calls) : joinInsert(c)
  \/ \E p \in PlayerIds, id \in SessionInputs : rejoinCheck(p, id)
  \/ \E c \in BagToSet(calls) : rejoinCommit(c)
  \/ \E p \in PlayerIds : disconnect(p)
  \/ startGameCheck(AdminId, SessionId)
  \/ \E c \in BagToSet(calls) : startGameDraw(c)
  \/ \E c \in BagToSet(calls) : startGameCommit(c)
  \/ forceRevealCheck(AdminId, SessionId)
  \/ \E c \in BagToSet(calls) : forceRevealCommit(c)
  \/ endGameCheck(AdminId, SessionId)
  \/ \E c \in BagToSet(calls) : endGameWinner(c)
  \/ \E c \in BagToSet(calls) : endGameCommit(c)
  \/ \E p \in PlayerIds, q \in QuestionIds :
       \E sel \in SubmittedSelections(q) : submitAnswerCheck(p, q, sel)
  \/ \E c \in BagToSet(calls) : submitAnswerCount(c)
  \/ \E c \in BagToSet(calls) : submitAnswerCommit(c)
  \/ \E p \in PlayerIds : heartbeat(p)
  \/ nextQuestionCheck(AdminId, SessionId)
  \/ \E c \in BagToSet(calls) : nextQuestionDraw(c)
  \/ \E c \in BagToSet(calls) : nextQuestionCommit(c)
  \/ \E d \in DurationInputs : sessionsUpdateCheck(AdminId, SessionId, d)
  \/ \E c \in BagToSet(calls) : sessionsUpdateCommit(c)
  \/ getCurrentQuestionSession(SessionId)
  \/ \E c \in BagToSet(calls) : getCurrentQuestionReturn(c)
  \/ \E q \in QuestionIds : getRoundStatsResponses(SessionId, q)
  \/ \E c \in BagToSet(calls) : getRoundStatsReturn(c)
  \/ \E p \in PlayerIds, q \in QuestionIds : getPlayerResponse(p, q)
  \/ getRemainingQuestionsCountSession(SessionId)
  \/ \E c \in BagToSet(calls) : getRemainingQuestionsCountReturn(c)

SpecAll == Init /\ [][NextAll]_vars

----------------------------------------------------------------------------
(* The scoring function on its own: every question type, every marking of the
   options as correct (at least one, as questions are validated), every selection list up to MaxSelected ids, which may repeat
   an id or name an id that is no option of the question *)

ScoringOptionIds == 1..NumOptions

ScoringSelections ==
  UNION { [1..n -> 1..(NumOptions + 1)] : n \in 0..MaxSelected }

InitScoring ==
  /\ gameSession = NewSession
  /\ usedQuestions = EmptyBag
  /\ players = [p \in PlayerIds |-> NoRow]
  /\ playerResponses = EmptyBag
  /\ calls = EmptyBag
  /\ result = Result("none", "none", "none")
  /\ requests = 0
  /\ questions = [q \in QuestionIds |-> NewQuestion(q, QuestionInput(q))]
  /\ answerOptions = [q \in QuestionIds |->
                        InsertOptions(q, FirstOptions(q), QuestionInput(q).options)]
  /\ slugs = <<SessionSlug>>
  /\ \E qtype \in {"single", "multi"}, correct \in (SUBSET ScoringOptionIds) \ {{}},
        selected \in ScoringSelections :
       scoring = [pc |-> "input", question_type |-> qtype,
                  options |-> { [id |-> o, question_id |-> 1, is_correct |-> o \in correct] :
                                o \in ScoringOptionIds },
                  selectedOptionIds |-> selected, points |-> 0]

\* submitAnswer computes the points of the selection
ScoreAnswer ==
  /\ scoring.pc = "input"
  /\ scoring' = [scoring EXCEPT
       !.pc = "scored",
       !.points = CalculatePoints(scoring.question_type, scoring.options,
                                  scoring.selectedOptionIds)]
  /\ UNCHANGED <<gameSession, usedQuestions, players, playerResponses, calls, result, requests,
                 questions, answerOptions, slugs>>

NextScoring == ScoreAnswer

SpecScoring == InitScoring /\ [][NextScoring]_vars

----------------------------------------------------------------------------
(* Properties *)

InFlight == BagToSet(calls)

\* the players of the session whose row says is_connected
FlaggedConnected == { p \in PlayerIds : ~players[p].absent /\ players[p].is_connected }

\* number of rows of player p for question q in a player_responses table
RowsOf(table, p, q) ==
  Count(table, { r \in BagToSet(table) : r.player_id = p /\ r.question_id = q })

RECURSIVE SumPoints(_, _)
SumPoints(table, rows) ==
  IF rows = {} THEN 0
  ELSE LET r == CHOOSE x \in rows : TRUE
       IN table[r] * r.points_earned + SumPoints(table, rows \ {r})

\* sum of points_earned over the player_responses rows of player p
PointsEarned(p) ==
  SumPoints(playerResponses, { r \in BagToSet(playerResponses) : r.player_id = p })

\* number of player_responses rows of the session for question q
RowsIn(q) ==
  Count(playerResponses, { r \in BagToSet(playerResponses) :
                             r.session_id = SessionId /\ r.question_id = q })

\* the status changes of the transition table, and endGame from every state but ended
TransitionTable ==
  { <<"lobby", "active">>, <<"active", "revealing">>, <<"revealing", "active">>,
    <<"revealing", "ended">>, <<"lobby", "ended">>, <<"active", "ended">> }

\* C1: every change of the session's status is a pair of the transition table or an
\* endGame from lobby, active or revealing; nothing moves a session out of ended.
C1_StatusFollowsTransitionTable ==
  [][gameSession'.status # gameSession.status
       => <<gameSession.status, gameSession'.status>> \in TransitionTable]_vars

\* C2: there is at most one player_responses row per (player, question).
C2_OneResponsePerPlayerAndQuestion ==
  \A p \in PlayerIds, q \in QuestionIds : RowsOf(playerResponses, p, q) <= 1

\* C3: no two used_questions rows of the session carry the same question id.
C3_NoQuestionUsedTwice ==
  \A q \in QuestionIds :
    Count(usedQuestions, { u \in BagToSet(usedQuestions) : u.question_id = q }) <= 1

\* C4: each player's score is the sum of points_earned over the player's responses.
C4_ScoreIsSumOfPointsEarned ==
  \A p \in SessionPlayers : players[p].score = PointsEarned(p)

\* C5: a response is recorded and a score changed only while the session is active and
\* only for the question that is current when the write lands.
C5_WritesOnlyForCurrentQuestionWhileActive ==
  [][\A c \in InFlight :
       submitAnswerCommit(c)
         => /\ gameSession.status = "active"
            /\ gameSession.current_question_id = c.questionId]_vars

\* a submitAnswer for (p, q) arrives and completes its checks
SubmitArrives(p, q) == \E sel \in SubmittedSelections(q) : submitAnswerCheck(p, q, sel)

C8_RevealOnlyWhenConnectedAnswered ==
  [][\A c \in InFlight :
       (submitAnswerCommit(c) /\ gameSession.status # "revealing"
          /\ gameSession'.status = "revealing")
         => \A p \in FlaggedConnected' :
              RowsOf(playerResponses', p, gameSession'.current_question_id) > 0]_vars

\* C9 as claimed: in an active session, when every connected player has a response
\* for the current question (and some player is connected), the round has been
\* revealed: no such state has status active.
C9_AllConnectedAnsweredImpliesRevealed ==
  (/\ gameSession.status = "active"
   /\ FlaggedConnected # {})
    => \E p \in FlaggedConnected :
         RowsOf(playerResponses, p, gameSession.current_question_id) = 0

\* C9 as amended: a submitAnswer that finds, at its count, a response of every
\* connected player for its question (its own included) sets allAnswered and, when it
\* commits, the session is revealing, whatever the disconnected players have answered.
C9_DisconnectedPlayerDoesNotBlockSubmit ==
  [][\A c \in InFlight :
       /\ (/\ submitAnswerCount(c)
           /\ \A p \in FlaggedConnected :
                p = c.playerId \/ RowsOf(playerResponses, p, c.questionId) > 0)
            => Counted(c).allAnswered
       /\ (submitAnswerCommit(c) /\ c.allAnswered)
            => gameSession'.status = "revealing"]_vars

\* C9 witness: the round was revealed by a submission although a disconnected player
\* of the session has not answered its question
C9_Witness ==
  /\ result.op = "submitAnswer" /\ result.allAnswered
  /\ gameSession.status = "revealing"
  /\ \E p \in SessionPlayers :
       /\ ~players[p].is_connected
       /\ RowsOf(playerResponses, p, gameSession.current_question_id) = 0

\* C10: for a single question the points are 1 if exactly one option is selected and
\* it is marked correct, and 0 otherwise.
C10_SinglePoints ==
  (scoring.pc = "scored" /\ scoring.question_type = "single")
    => LET selected == scoring.selectedOptionIds
           correct == { o \in scoring.options : o.is_correct }
       IN IF Len(selected) = 1 /\ (\E o \in correct : o.id = selected[1])
            THEN scoring.points = 1
            ELSE scoring.points = 0

\* C10 witness: a single question scored with one selected option, the correct one
C10_Witness ==
  /\ scoring.pc = "scored" /\ scoring.question_type = "single"
  /\ Len(scoring.selectedOptionIds) = 1
  /\ scoring.points = 1

\* number of entries of the selection list that name an option of the set
Selected(selectedOptionIds, options) ==
  Cardinality({ i \in DOMAIN selectedOptionIds :
                  \E o \in options : o.id = selectedOptionIds[i] })

\* C11 as claimed: for a multi question the points are the number of selected ids that
\* are correct options minus the number of selected ids that are not, every selected id
\* outside the correct set counting as incorrect.
C11_MultiPointsNotCorrectIsIncorrect ==
  (scoring.pc = "scored" /\ scoring.question_type = "multi")
    => LET selected == scoring.selectedOptionIds
           correct == { o \in scoring.options : o.is_correct }
       IN scoring.points = Selected(selected, correct)
                             - (Len(selected) - Selected(selected, correct))

\* C11 as amended: for a multi question the points are the number of entries of the
\* selection that name a correct option of the question minus the number of entries
\* that name an incorrect option of the question; an entry that names no option of the
\* question and an option that is not selected contribute nothing; so a selection of
\* every option once yields (#correct) - (#incorrect), which may be negative.
C11_MultiPoints ==
  (scoring.pc = "scored" /\ scoring.question_type = "multi")
    => LET selected == scoring.selectedOptionIds
           correct == { o \in scoring.options : o.is_correct }
           incorrect == { o \in scoring.options : ~o.is_correct }
       IN /\ scoring.points = Selected(selected, correct) - Selected(selected, incorrect)
          /\ (/\ Len(selected) = Cardinality(scoring.options)
              /\ \A o \in scoring.options : \E i \in DOMAIN selected : selected[i] = o.id)
               => scoring.points = Cardinality(correct) - Cardinality(incorrect)

\* C11 witness: a multi question with more incorrect than correct options, every
\* option selected, scored negative
C11_Witness ==
  /\ scoring.pc = "scored" /\ scoring.question_type = "multi"
  /\ Len(scoring.selectedOptionIds) = Cardinality(scoring.options)
  /\ \A o \in scoring.options :
       \E i \in DOMAIN scoring.selectedOptionIds : scoring.selectedOptionIds[i] = o.id
  /\ \E o \in scoring.options : o.is_correct
  /\ scoring.points < 0

\* C12: an endGame that commits writes as winner_player_id a player of the session
\* whose score is at least the score of every player of the session at the time of
\* the write, and null exactly when the session has no players.
C12_WinnerHasHighestScore ==
  [][\A c \in InFlight :
       endGameCommit(c)
         => IF \A p \in PlayerIds : players[p].absent
              THEN gameSession'.winner_player_id = NULL
              ELSE /\ gameSession'.winner_player_id \in PlayerIds
                   /\ ~players[gameSession'.winner_player_id].absent
                   /\ \A o \in PlayerIds :
                        ~players[o].absent
                          => players[gameSession'.winner_player_id].score
                               >= players[o].score]_vars

\* C13: endGame is admitted from lobby, active and revealing and its commit sets
\* status = ended, the winner and ended_at; from ended it is rejected with the session
\* unchanged; and once the session is ended no endGame overwrites winner_player_id or
\* ended_at.
C13_EndGameOnceFromAnyLiveStatus ==
  [][/\ endGameCheck(AdminId, SessionId)
          => IF gameSession.status = "ended"
               THEN result'.code = "BAD_REQUEST" /\ gameSession' = gameSession
                    /\ calls' = calls
               ELSE \E c \in BagToSet(calls') : c.op = "endGame" /\ CopiesIn(c, calls') > CopiesIn(c, calls)
     /\ \A c \in InFlight :
          endGameCommit(c)
            => /\ gameSession'.status = "ended"
               /\ gameSession'.winner_player_id = c.winner
               /\ gameSession'.ended_at > gameSession.ended_at
     /\ gameSession.status = "ended"
          => /\ gameSession'.winner_player_id = gameSession.winner_player_id
             /\ gameSession'.ended_at = gameSession.ended_at]_vars

\* a request of operation op was admitted: it passed its checks and opened its transaction
Admitted(op) ==
  \E c \in BagToSet(calls') : c.op = op /\ CopiesIn(c, calls') > CopiesIn(c, calls)

\* the request was rejected as an invalid request and left the session, the used
\* questions and the requests in flight as they were
RejectedUnchanged ==
  /\ result'.code = "BAD_REQUEST"
  /\ UNCHANGED <<gameSession, usedQuestions, players, playerResponses, calls>>

\* C14: startGame passes its checks only when the session is in lobby and has a player;
\* in every other status, or with no player, it is rejected as an invalid request and
\* leaves status, current_question_id and the used questions unchanged.
C14_StartGameOnlyFromLobbyWithPlayers ==
  [][startGameCheck(AdminId, SessionId)
       => IF gameSession.status = "lobby" /\ (\E p \in PlayerIds : ~players[p].absent)
            THEN Admitted("startGame")
            ELSE RejectedUnchanged]_vars

\* C15: nextQuestion passes its check only when the session is revealing; in lobby,
\* active or ended it is rejected and draws nothing.
C15_NextQuestionOnlyFromRevealing ==
  [][nextQuestionCheck(AdminId, SessionId)
       => IF gameSession.status = "revealing"
            THEN Admitted("nextQuestion")
            ELSE RejectedUnchanged]_vars

\* C16: forceReveal passes its check only when the status it reads is active, and in
\* lobby, revealing or ended it is rejected and changes nothing; its transaction sets
\* status = revealing and leaves current_question_id, round_started_at, every other
\* column of the session, the used questions, the players with their scores and the
\* responses unchanged.
C16_ForceRevealIsPureStatusFlip ==
  [][/\ forceRevealCheck(AdminId, SessionId)
          => IF gameSession.status = "active"
               THEN Admitted("forceReveal")
                    /\ UNCHANGED <<gameSession, usedQuestions, players, playerResponses>>
               ELSE RejectedUnchanged
     /\ \A c \in InFlight :
          forceRevealCommit(c)
            => /\ gameSession' = [gameSession EXCEPT !.status = "revealing"]
               /\ result'.op = "forceReveal" /\ result'.code = "OK"
               /\ UNCHANGED <<usedQuestions, players, playerResponses>>]_vars

\* C16 witness: forceReveal succeeded on a round in which a player had answered and
\* another player of the session had not
C16_Witness ==
  /\ result.op = "forceReveal" /\ result.code = "OK"
  /\ gameSession.status = "revealing"
  /\ gameSession.round_started_at = 1
  /\ \E p \in PlayerIds : RowsOf(playerResponses, p, gameSession.current_question_id) = 1
  /\ \E p \in PlayerIds : ~players[p].absent
       /\ RowsOf(playerResponses, p, gameSession.current_question_id) = 0

\* every question of the session's bank has a used_questions row of the session
AllUsed ==
  \A q \in created : \E u \in BagToSet(usedQuestions) : u.question_id = q

\* the draw of request c returns exhausted and nothing of the store changes
Exhausted(c) ==
  /\ result'.op = c.op /\ result'.code = "BAD_REQUEST"
  /\ result'.message \in {"No questions available in the bank", "No more questions available"}
  /\ UNCHANGED <<gameSession, usedQuestions, players, playerResponses>>

\* C17 as claimed: once every question of the bank is used, every draw of startGame
\* and nextQuestion returns exhausted and leaves the session unchanged, and no step of
\* any operation ends this: every question of the bank stays used.
C17_ExhaustedForever ==
  [][AllUsed
       => /\ \A c \in InFlight :
               (startGameDraw(c) \/ nextQuestionDraw(c)) => Exhausted(c)
          /\ AllUsed']_vars

\* C17 as amended: while every question of the bank is used, every draw of startGame
\* and nextQuestion returns exhausted and leaves the session unchanged, and this stays
\* so as long as no question is added to the bank; questions.create on the bank adds an
\* unused question, and draws succeed again although the used set was not reset.
C17_ExhaustedUntilQuestionCreated ==
  [][AllUsed
       => /\ \A c \in InFlight :
               (startGameDraw(c) \/ nextQuestionDraw(c)) => Exhausted(c)
          /\ created' = created => AllUsed'
          /\ questionsCreate(QuestionInput(Cardinality(created) + 1))
               => /\ ~AllUsed'
                  /\ \A u \in BagToSet(usedQuestions) : CopiesIn(u, usedQuestions') >= 1]_vars

\* C17 witness: a draw returned exhausted with every question of the bank used
C17_Witness ==
  /\ AllUsed /\ created # {}
  /\ result.op \in {"startGame", "nextQuestion"}
  /\ result.message \in {"No questions available in the bank", "No more questions available"}

\* C18: the question_order values of the session's n used_questions rows are exactly
\* 1..n, each once.
C18_QuestionOrderCountsDraws ==
  \A k \in 1..BagCardinality(usedQuestions) :
    Count(usedQuestions, { u \in BagToSet(usedQuestions) : u.question_order = k }) = 1

\* C19: concurrent startGame and nextQuestion calls are serialized by the status check:
\* a call whose draw lands after another call has changed the status fails its
\* precondition, so a draw is recorded and made current only on a session whose
\* status still admits the move to active, and never on top of a round just begun.
C19_ConcurrentDrawsSerialized ==
  [][\A c \in InFlight :
       (startGameCommit(c) \/ nextQuestionCommit(c))
         => /\ canTransition(gameSession.status, "active")
            /\ BagCardinality(usedQuestions') = c.usedCount + 1]_vars

\* C20: a request that fails leaves the whole store unchanged, and the writes of a
\* successful one land together: a used_questions row appears only in the step that
\* makes its question the current one of a session set active, and a response appears
\* only in the step that writes its player's score as the score the request read plus
\* the response's points.
C20_WritesLandTogetherOrNotAtAll ==
  [][/\ result'.code \notin {"OK", "none"} /\ result' # result
          => UNCHANGED <<gameSession, usedQuestions, players, playerResponses, questions,
                        answerOptions>>
     /\ usedQuestions' # usedQuestions
          => \E q \in created, k \in 1..(BagCardinality(usedQuestions) + 1) :
               /\ usedQuestions' = usedQuestions
                    (+) SetToBag({[question_id |-> q, question_order |-> k]})
               /\ gameSession'.status = "active"
               /\ gameSession'.current_question_id = q
               /\ gameSession'.round_started_at > gameSession.round_started_at
     /\ (gameSession'.current_question_id # gameSession.current_question_id
          \/ gameSession'.round_started_at # gameSession.round_started_at)
          => usedQuestions' # usedQuestions
     /\ playerResponses' # playerResponses
          => \E c \in InFlight :
               /\ c.op = "submitAnswer"
               /\ \E r \in BagToSet(playerResponses') :
                    /\ playerResponses' = playerResponses (+) SetToBag({r})
                    /\ r.player_id = c.playerId /\ r.points_earned = c.points
                    /\ players' = [players EXCEPT ![r.player_id].score =
                                                   c.score + r.points_earned]
     /\ (\E p \in PlayerIds : ~players[p].absent /\ players'[p].score # players[p].score)
          => playerResponses' # playerResponses]_vars

\* C20 witness: a draw and a scored submission have landed, and a later request failed
C20_Witness ==
  /\ result.code = "BAD_REQUEST"
  /\ \E u \in BagToSet(usedQuestions) : u.question_id = gameSession.current_question_id
  /\ \E r \in BagToSet(playerResponses) :
       r.points_earned = 1 /\ players[r.player_id].score = 1

\* no session with the id belongs to the caller: there is none, or it is another admin's
NotOwned(adminId, sessionId) ==
  \/ gameSession.absent
  \/ gameSession.id # sessionId
  \/ gameSession.admin_id # adminId

\* the request of operation op fails as not found and nothing changes
NotFoundUnchanged(op) ==
  /\ result' = Result(op, "NOT_FOUND", "Game session not found")
  /\ UNCHANGED <<gameSession, usedQuestions, players, playerResponses, calls, questions,
                 answerOptions, slugs>>

\* C21: startGame, nextQuestion, forceReveal, endGame, sessions.update and
\* sessions.delete called with a session id by an admin who owns no session with that
\* id return one and the same outcome, not found, and change nothing, whether no
\* session has the id or another admin's session has it, in whatever state it is
\* (an input that fails validation is refused as such in both cases alike).
C21_NotOwnedIsNotFound ==
  [][\A a \in AdminIds, id \in SessionInputs :
       NotOwned(a, id)
         => /\ startGameCheck(a, id) => NotFoundUnchanged("startGame")
            /\ nextQuestionCheck(a, id) => NotFoundUnchanged("nextQuestion")
            /\ forceRevealCheck(a, id) => NotFoundUnchanged("forceReveal")
            /\ endGameCheck(a, id) => NotFoundUnchanged("endGame")
            /\ sessionsDelete(a, id) => NotFoundUnchanged("sessions.delete")
            /\ \A d \in DurationInputs :
                 sessionsUpdateCheck(a, id, d)
                   => IF d = NULL \/ (d >= MinRoundDuration /\ d <= MaxRoundDuration)
                        THEN NotFoundUnchanged("sessions.update")
                        ELSE /\ result'.code = "BAD_REQUEST"
                             /\ result'.message = "Input validation failed"
                             /\ UNCHANGED <<gameSession, usedQuestions, players,
                                            playerResponses, calls, slugs>>]_vars

\* C21 witness: a delete was answered not found while the session exists, has been
\* started and is unchanged
C21_Witness ==
  /\ result = Result("sessions.delete", "NOT_FOUND", "Game session not found")
  /\ ~gameSession.absent /\ gameSession.status = "active"
  /\ slugs[SessionId] = SessionSlug
  /\ BagCardinality(usedQuestions) = 1

\* C27: round_duration_seconds is within 10..120 in every state, sessions.update on a
\* session that is active, revealing or ended is rejected and changes nothing, and the
\* value does not change once the session has left lobby.
C27_RoundDurationSetOnlyInLobby ==
  [][/\ gameSession.round_duration_seconds >= MinRoundDuration
     /\ gameSession.round_duration_seconds <= MaxRoundDuration
     /\ \A d \in DurationInputs :
          (sessionsUpdateCheck(AdminId, SessionId, d) /\ gameSession.status # "lobby")
            => /\ result'.code \in {"BAD_REQUEST", "NOT_FOUND"}
               /\ UNCHANGED <<gameSession, calls>>
     /\ (~gameSession.absent /\ gameSession.status # "lobby")
          => gameSession'.round_duration_seconds = gameSession.round_duration_seconds]_vars

\* C22: join on a session that is not in lobby is rejected and changes nothing, and the
\* set of players of the session does not change once its status has left lobby, also
\* when a join validated in lobby completes after startGame.
C22_PlayersJoinOnlyInLobby ==
  [][/\ \A name \in DisplayNames, p \in PlayerIdInputs :
          (joinCheck(SessionId, name, p) /\ gameSession.status # "lobby")
            => /\ result' = Result("join", "BAD_REQUEST",
                                   "Cannot join a game that has already started")
               /\ UNCHANGED <<gameSession, players, calls>>
     /\ gameSession.status # "lobby" => SessionPlayers' = SessionPlayers]_vars

\* no two distinct players of the session have display names equal up to letter case
NamesUnique(table) ==
  \A p, q \in PlayerIds :
    (/\ p # q
     /\ ~table[p].absent /\ ~table[q].absent
     /\ table[p].session_id = table[q].session_id)
      => toLowerCase(table[p].display_name) # toLowerCase(table[q].display_name)

\* C23: in every state the display names of a session's players differ beyond letter
\* case, and a join with a name that another player of the session has is rejected
\* with Conflict and adds no player, also when two joins are interleaved.
C23_DisplayNamesUnique ==
  [][/\ NamesUnique(players) /\ NamesUnique(players')
     /\ \A name \in DisplayNames, p \in PlayerIdInputs :
          (/\ joinCheck(SessionId, name, p)
           /\ gameSession.status = "lobby"
           /\ \E q \in SessionPlayers \ {p} :
                toLowerCase(players[q].display_name) = toLowerCase(name))
            => /\ result' = Result("join", "CONFLICT", "This name is already taken")
               /\ UNCHANGED <<gameSession, players, calls>>]_vars

\* C24: join in lobby with the id of a player of the session and a name no other
\* player has opens the renaming transaction, which leaves the number of players and
\* the player's id, score and session as they are and sets display_name to the new
\* name and is_connected to true; join with the player's own current name is accepted.
C24_JoinWithKnownIdRenames ==
  [][/\ \A name \in DisplayNames, p \in PlayerIds :
          (/\ joinCheck(SessionId, name, p)
           /\ gameSession.status = "lobby"
           /\ p \in SessionPlayers
           /\ \/ name = players[p].display_name
              \/ \A q \in SessionPlayers \ {p} :
                   toLowerCase(players[q].display_name) # toLowerCase(name))
            => /\ \E c \in BagToSet(calls') :
                    /\ c.op = "join" /\ c.pc = "update"
                    /\ c.playerId = p /\ c.displayName = name
                    /\ CopiesIn(c, calls') > CopiesIn(c, calls)
               /\ UNCHANGED <<gameSession, players>>
     /\ \A c \in BagToSet(calls) :
          joinUpdate(c)
            => /\ players' = [players EXCEPT ![c.playerId].display_name = c.displayName,
                                             ![c.playerId].is_connected = TRUE]
               /\ players'[c.playerId].id = players[c.playerId].id
               /\ players'[c.playerId].score = players[c.playerId].score
               /\ players'[c.playerId].session_id = players[c.playerId].session_id
               /\ Cardinality(SessionPlayers') = Cardinality(SessionPlayers)
               /\ result' = Result("join", "OK", "none")
               /\ UNCHANGED <<gameSession, usedQuestions, playerResponses>>]_vars

\* C25: rejoin by a player of the session passes its checks in every status, and its
\* transaction changes that player's is_connected to true and nothing else (no score,
\* display name, response, status or current question; last_seen_at is a timestamp
\* that no handler reads and is not a column of the model); rejoin for a player who
\* is not in that session is answered not found and changes nothing.
C25_RejoinOnlyReconnects ==
  [][/\ \A p \in PlayerIds, id \in SessionInputs :
          rejoinCheck(p, id)
            => IF p \in SessionPlayers /\ id = SessionId
                 THEN /\ \E c \in BagToSet(calls') :
                           /\ c.op = "rejoin" /\ c.playerId = p
                           /\ CopiesIn(c, calls') > CopiesIn(c, calls)
                      /\ UNCHANGED <<gameSession, players, playerResponses>>
                 ELSE /\ result' = Result("rejoin", "NOT_FOUND",
                                          "Player not found in this session")
                      /\ UNCHANGED <<gameSession, usedQuestions, players, playerResponses,
                                     calls>>
     /\ \A c \in BagToSet(calls) :
          rejoinCommit(c)
            => /\ players' = [players EXCEPT ![c.playerId].is_connected = TRUE]
               /\ result' = Result("rejoin", "OK", "none")
               /\ UNCHANGED <<gameSession, usedQuestions, playerResponses>>]_vars

\* C25 witness: a player who had left and has a score came back after the game ended
C25_Witness ==
  /\ result = Result("rejoin", "OK", "none")
  /\ gameSession.status = "ended"
  /\ \A p \in SessionPlayers : players[p].is_connected

\* no two sessions have the same slug
SlugsUnique(column) ==
  \A i, j \in DOMAIN column : (i # j /\ column[i] = column[j]) => column[i] = NoSlug

\* the slug the claim gives a creation that asks for slug: slug itself when no session
\* has it, else slug-k for the least k >= 1 that no session has
ClaimedSlug(slug) ==
  IF ~SlugExists(slug) THEN slug
  ELSE WithCounter(slug, CHOOSE k \in 1..(Len(slugs) + 1) :
                           /\ ~SlugExists(WithCounter(slug, k))
                           /\ \A j \in 1..(k - 1) : SlugExists(WithCounter(slug, j)))

\* C26: a creation with valid input against a bank that has questions chooses the
\* requested slug when no session has it and else the requested slug followed by -k
\* for the least free k >= 1, and ends with a new session that has this slug; no two
\* sessions ever share a slug; a creation against a bank with no questions is
\* rejected and creates nothing.
C26_CreateSessionUniquifiesSlug ==
  [][/\ SlugsUnique(slugs) /\ SlugsUnique(slugs')
     /\ \A slug \in SlugInputs, d \in {NULL, MaxRoundDuration + 1} :
          /\ (sessionsCreateCheck(slug, BankId, d) /\ SlugLength(slug) <= MaxSlugLength
                 /\ d = NULL /\ created # {})
               => \E c \in BagToSet(calls') :
                    /\ c.op = "sessions.create" /\ c.slug = ClaimedSlug(slug)
                    /\ CopiesIn(c, calls') > CopiesIn(c, calls)
          /\ (sessionsCreateCheck(slug, EmptyBankId, d) /\ SlugLength(slug) <= MaxSlugLength
                 /\ d = NULL)
               => /\ result' = Result("sessions.create", "BAD_REQUEST",
                                      "Question bank has no questions")
                  /\ UNCHANGED <<slugs, calls, gameSession>>
     /\ \A c \in BagToSet(calls) :
          sessionsCreateCommit(c)
            => /\ slugs' = Append(slugs, c.slug)
               /\ result' = Result("sessions.create", "OK", "none")]_vars

\* C28: getCurrentQuestion on a session it has read as active returns the options of
\* the current question, each with is_correct = false, which is a function of the
\* stored options without their is_correct flags; on a session it has read as
\* revealing it returns the stored options with their flags.
C28_CorrectFlagsHiddenWhileActive ==
  [][\A c \in BagToSet(calls) :
       (getCurrentQuestionReturn(c) /\ c.questionId \in created)
         => LET options == answerOptions[c.questionId]
            IN /\ c.status = "active"
                    => result'.options =
                         [i \in DOMAIN options |->
                            [id |-> options[i].id, question_id |-> options[i].question_id,
                             is_correct |-> FALSE]]
               /\ c.status = "revealing" => result'.options = options]_vars

\* C28 witness: the current question of the active session has an option marked
\* correct, and getCurrentQuestion has returned its options with none marked
C28_Witness ==
  /\ gameSession.status = "active"
  /\ result.op = "getCurrentQuestion" /\ result.options # <<>>
  /\ \A i \in DOMAIN result.options : ~result.options[i].is_correct
  /\ {result.options[i].id : i \in DOMAIN result.options}
       = {o.id : o \in OptionsOf(gameSession.current_question_id)}
  /\ \E o \in OptionsOf(gameSession.current_question_id) : o.is_correct

\* C29 as stated: current_question_id is null exactly when the status is lobby or ended
C29_CurrentQuestionNullIffLobbyOrEnded ==
  (gameSession.current_question_id = NULL) <=> (gameSession.status \in {"lobby", "ended"})

\* C29: current_question_id is null in lobby and is a question in active and in
\* revealing; endGame leaves it as it is, so in ended it is null only if no question
\* was ever drawn in the session, and else still names the last current question.
C29_CurrentQuestionKeptOnEnd ==
  [][/\ gameSession.status = "lobby" => gameSession.current_question_id = NULL
     /\ gameSession.status \in {"active", "revealing"}
          => gameSession.current_question_id \in QuestionIds
     /\ gameSession.status = "ended"
          => (gameSession.current_question_id = NULL <=> usedQuestions = EmptyBag)
     /\ \A c \in BagToSet(calls) :
          endGameCommit(c)
            => /\ gameSession'.status = "ended"
               /\ gameSession'.current_question_id = gameSession.current_question_id]_vars

\* C29 witness: the game was ended during a round and the session still names the
\* round's question
C29_Witness ==
  /\ gameSession.status = "ended"
  /\ result = Result("endGame", "OK", "none")
  /\ gameSession.current_question_id \in QuestionIds

\* the options of every stored question: between 2 and 6, and one marked correct
OptionsValid(table, options) ==
  \A q \in QuestionIds :
    ~table[q].absent
      => /\ Len(options[q]) >= MinOptions /\ Len(options[q]) <= MaxOptions
         /\ \E i \in DOMAIN options[q] : options[q][i].is_correct

\* options that a question may not have: fewer than 2, more than 6, or none correct
OptionsRefused(flags) ==
  \/ Len(flags) < MinOptions
  \/ Len(flags) > MaxOptions
  \/ \A i \in DOMAIN flags : ~flags[i]

\* the inputs of questions.create and of questions.update whose options may not be
\* stored
RefusedCreateInputs == { input \in CreateInputs : OptionsRefused(input.options) }
RefusedUpdateInputs ==
  { input \in UpdateInputs : "options" \in input.keys /\ OptionsRefused(input.options) }

UsedIds(table) == { u.question_id : u \in BagToSet(table) }

\* question q is the one row of the used questions with the highest question_order
LastUsed(table, q) ==
  \E u \in BagToSet(table) :
    /\ u.question_id = q
    /\ CopiesIn(u, table) = 1
    /\ \A o \in BagToSet(table) : o # u => o.question_order < u.question_order

\* C34: each successful startGame or nextQuestion adds one used_questions row, for a
\* question of the session's bank that was not used in the session before, and makes
\* that question current; while active or revealing the current question is a question
\* of the bank and the used question of highest question_order; nothing but a
\* successful draw changes the used questions.
C34_DrawAddsOneUnusedQuestion ==
  [][/\ \A c \in InFlight :
          ((startGameCommit(c) \/ nextQuestionCommit(c)) /\ result'.code = "OK")
            => /\ BagCardinality(usedQuestions') = BagCardinality(usedQuestions) + 1
               /\ UsedIds(usedQuestions') = UsedIds(usedQuestions) \cup {c.question}
               /\ c.question \in created /\ questions[c.question].bank_id = gameSession.bank_id
               /\ c.question \notin UsedIds(usedQuestions)
               /\ gameSession'.current_question_id = c.question
     /\ gameSession.status \in {"active", "revealing"}
          => /\ gameSession.current_question_id \in created
             /\ LastUsed(usedQuestions, gameSession.current_question_id)
     /\ usedQuestions' # usedQuestions
          => \E c \in InFlight :
               (startGameCommit(c) \/ nextQuestionCommit(c)) /\ result'.code = "OK"]_vars

\* C35: a session that is active or revealing has at least one player.
C35_RoundHasPlayers ==
  gameSession.status \in {"active", "revealing"} => SessionPlayers # {}

\* C38: the points of a submission are 0 or 1 for a single question, and for a multi
\* question at least minus the number of incorrect options and at most the number of
\* correct options, whatever the selection list (ids may repeat or name no option).
C38_PointsBoundedByQuestion ==
  scoring.pc = "scored"
    => LET correct == { o \in scoring.options : o.is_correct }
           incorrect == { o \in scoring.options : ~o.is_correct }
       IN IF scoring.question_type = "single"
            THEN scoring.points \in {0, 1}
            ELSE /\ scoring.points >= 0 - Cardinality(incorrect)
                 /\ scoring.points <= Cardinality(correct)

\* the round on question q is over: the session is no longer active on q
RoundOver(q) ==
  gameSession.status # "active" \/ gameSession.current_question_id # q

\* C31: the auto-advance flip is idempotent: a submission that observed all-answered and
\* writes status = revealing after another submission of the same round was committed
\* and the round is over leaves the session's status, current question, round start
\* and used set as they were.
C31_SecondFlipChangesNothing ==
  [][\A c \in InFlight :
       ( /\ submitAnswerCommit(c) /\ c.allAnswered
         /\ RoundOver(c.questionId)
         /\ \E p \in PlayerIds \ {c.playerId} : ResponsesOf(p, c.questionId) > 0 )
         => /\ gameSession'.status = gameSession.status
            /\ gameSession'.current_question_id = gameSession.current_question_id
            /\ gameSession'.round_started_at = gameSession.round_started_at
            /\ usedQuestions' = usedQuestions]_vars

\* C33: with an unchanging set of connected players, once every connected player's
\* submission for the current question has completed the session is revealing: there
\* is no state in which the round is still active, no submission is in flight and
\* every connected player has a committed response to the current question.
C33_LastSubmissionReveals ==
  ~ /\ gameSession.status = "active"
    /\ ConnectedPlayers # {}
    /\ \A p \in ConnectedPlayers : ResponsesOf(p, gameSession.current_question_id) > 0
    /\ \A c \in InFlight : c.op # "submitAnswer"

\* C36: while the session is ended, winner_player_id is null iff the session has no
\* players and otherwise names a player of the session whose score is at least every
\* other player's, and no step changes a score or the responses of the session.
C36_EndedSessionIsFinal ==
  [][gameSession.status = "ended"
       => /\ (gameSession.winner_player_id = NULL) <=> (SessionPlayers = {})
          /\ gameSession.winner_player_id # NULL
               => /\ gameSession.winner_player_id \in SessionPlayers
                  /\ \A o \in SessionPlayers :
                       players[gameSession.winner_player_id].score >= players[o].score
          /\ playerResponses' = playerResponses
          /\ \A p \in PlayerIds : players'[p].score = players[p].score]_vars

\* the responses among those read that earned points
Earning(responses) == { r \in BagToSet(responses) : r.points_earned > 0 }

\* C40: for a single-answer question, getRoundStats counts as correct exactly the
\* responses that earned 1 point, so that percentCorrect is the percentage of the
\* responses with points_earned > 0; correctCount is at most totalResponses and
\* percentCorrect lies within 0..100, 0 when there are no responses.
C40_RoundStatsAgreeWithScoring ==
  [][\A c \in InFlight :
       (getRoundStatsReturn(c) /\ question_type(c.questionId) = "single")
         => /\ result'.totalResponses = BagCardinality(c.responses_read)
            /\ \A r \in BagToSet(c.responses_read) :
                 isCorrect(r.selected_option_ids,
                           { o.id : o \in { x \in OptionsOf(c.questionId) : x.is_correct } })
                   <=> r.points_earned = 1
            /\ result'.correctCount = Count(c.responses_read, Earning(c.responses_read))
            /\ result'.percentCorrect
                 = Percent(Count(c.responses_read, Earning(c.responses_read)),
                           BagCardinality(c.responses_read))
            /\ result'.correctCount <= result'.totalResponses
            /\ result'.percentCorrect \in 0..100
            /\ result'.totalResponses = 0 => result'.percentCorrect = 0]_vars

\* the questions of the session's bank that were not drawn in the session
NotYetDrawn == { q \in created : questions[q].bank_id = gameSession.bank_id
                                  /\ q \notin UsedIds(usedQuestions) }

\* C39: getRemainingQuestionsCount of the session returns remaining = total - used,
\* which is the number of questions of the bank not yet drawn in the session; it is
\* not negative, and it is 0 exactly when a nextQuestion would find no question left.
C39_RemainingCountsUndrawnQuestions ==
  [][\A c \in InFlight :
       getRemainingQuestionsCountReturn(c)
         => /\ result'.remaining = result'.total - result'.used
            /\ result'.remaining = Cardinality(NotYetDrawn)
            /\ result'.remaining >= 0
            /\ result'.remaining = 0 <=> availableQuestions = {}]_vars

\* the player is a player of the session
Belongs(p, sessionId) == ~players[p].absent /\ players[p].session_id = sessionId

\* the score of a selection: for a single-answer question 1 for exactly one id that is
\* a correct option, else 0; for a multi-answer question one point for every entry
\* that is a correct option and one off for every entry that is an incorrect option
Scored(qtype, options, selectedOptionIds) ==
  LET correct == { o \in options : o.is_correct }
      incorrect == { o \in options : ~o.is_correct }
  IN IF qtype = "single"
       THEN IF Len(selectedOptionIds) = 1 /\ Selected(selectedOptionIds, correct) = 1
              THEN 1 ELSE 0
       ELSE Selected(selectedOptionIds, correct) - Selected(selectedOptionIds, incorrect)

\* every response is of a player of its session and for a used question of it
ResponsesRefer ==
  \A r \in BagToSet(playerResponses) :
    /\ r.player_id \in PlayerIds /\ Belongs(r.player_id, r.session_id)
    /\ r.session_id = gameSession.id
    /\ r.question_id \in UsedIds(usedQuestions)

\* C37 as claimed: every response refers to a player of its session and to a used
\* question of the session, and its points_earned is the score of its stored
\* selection for the question as the question is; a submitAnswer of a player of
\* another session for the question in play is rejected with NotFound and writes
\* nothing.
C37_ResponsesMatchScoring ==
  [][/\ ResponsesRefer
     /\ \A r \in BagToSet(playerResponses) :
          r.points_earned = Scored(question_type(r.question_id), OptionsOf(r.question_id),
                                   r.selected_option_ids)
     /\ \A p \in PlayerIds, q \in QuestionIds : \A sel \in RoundSelections(q) :
          (~Belongs(p, SessionId) /\ ~RoundOver(q) /\ submitAnswerCheck(p, q, sel))
            => /\ result'.code = "NOT_FOUND"
               /\ UNCHANGED <<gameSession, players, playerResponses, calls>>]_vars

\* C37 as amended: every response refers to a player of its session and to a used
\* question of the session; its points_earned and selection are those of the
\* submission that wrote it, the points being the score of the selection for the
\* question's type and options as they were when the submission was validated (they
\* are not recomputed when the question is edited); a submitAnswer of a player of
\* another session writes nothing and is rejected, with NotFound when the session
\* is active on the question and by the earlier status and question checks otherwise.
C37_ResponsesScoredAsSubmitted ==
  [][/\ ResponsesRefer
     /\ \A p \in PlayerIds, q \in QuestionIds : \A sel \in RoundSelections(q) :
          submitAnswerCheck(p, q, sel)
            => IF ~Belongs(p, SessionId)
                 THEN /\ result'.code \in {"NOT_FOUND", "BAD_REQUEST"}
                      /\ ~RoundOver(q) => result'.code = "NOT_FOUND"
                      /\ UNCHANGED <<gameSession, players, playerResponses, calls>>
                 ELSE calls' # calls
                        => \E c \in BagToSet(calls') :
                             /\ calls' = calls (+) SetToBag({c})
                             /\ c.playerId = p /\ c.questionId = q
                             /\ c.selectedOptionIds = sel
                             /\ c.points = Scored(question_type(q), OptionsOf(q), sel)
     /\ \A c \in InFlight :
          (submitAnswerCommit(c) /\ result'.code = "OK")
            => playerResponses' = playerResponses (+) SetToBag({
                 [player_id |-> c.playerId, session_id |-> gameSession.id,
                  question_id |-> c.questionId,
                  selected_option_ids |-> c.selectedOptionIds,
                  points_earned |-> c.points]})]_vars

\* C37 witness: a response that earned a point stands while its question was edited,
\* so that its points are no longer the score of its selection
C37_Witness ==
  /\ \E r \in BagToSet(playerResponses) :
       /\ r.points_earned = 1
       /\ Scored(question_type(r.question_id), OptionsOf(r.question_id),
                 r.selected_option_ids) # 1
  /\ result.op = "questions.update" /\ result.code = "OK"

\* a step of an operation that is no part of the game's flow: join, rejoin, heartbeat,
\* disconnect, sessions.update or a read query
Bystander ==
  \/ \E id \in SessionInputs, name \in DisplayNames, p \in PlayerIdInputs :
       joinCheck(id, name, p)
  \/ \E p \in PlayerIds, id \in SessionInputs : rejoinCheck(p, id)
  \/ \E p \in PlayerIds : heartbeat(p) \/ disconnect(p)
  \/ \E d \in DurationInputs : sessionsUpdateCheck(AdminId, SessionId, d)
  \/ getCurrentQuestionSession(SessionId)
  \/ \E q \in QuestionIds : getRoundStatsResponses(SessionId, q)
  \/ \E p \in PlayerIds, q \in QuestionIds : getPlayerResponse(p, q)
  \/ getRemainingQuestionsCountSession(SessionId)
  \/ \E c \in InFlight :
       \/ joinUpdate(c) \/ joinInsert(c) \/ rejoinCommit(c) \/ sessionsUpdateCommit(c)
       \/ getCurrentQuestionReturn(c) \/ getRoundStatsReturn(c)
       \/ getRemainingQuestionsCountReturn(c)

\* C32: there is no round deadline: a session leaves active only by the commit of a
\* submitAnswer that counted all answered, of a forceReveal or of an endGame; no step
\* of join, rejoin, heartbeat, disconnect, sessions.update or a read query changes the
\* status; so a round stays active unless an admin forces it or every connected
\* player has answered: when a submitAnswer ends the round, every connected player
\* has a response to the round's question.
C32_ActiveUntilAnsweredOrForced ==
  [][/\ (gameSession.status = "active" /\ gameSession'.status # "active")
          => \E c \in InFlight :
               \/ submitAnswerCommit(c) /\ c.allAnswered
               \/ forceRevealCommit(c)
               \/ endGameCommit(c)
     /\ Bystander => gameSession'.status = gameSession.status
     /\ \A c \in InFlight :
          (gameSession.status = "active" /\ gameSession'.status # "active"
             /\ submitAnswerCommit(c))
            => \A p \in ConnectedPlayers :
                 RowsOf(playerResponses', p, gameSession.current_question_id) > 0]_vars
====
